---------------------------- MODULE Spec2Model ----------------------------
(***************************************************************************)
(* Experiment run coordinator of ml-template (src/ml/trainers/base.py):    *)
(* run-directory resolution, advisory lock files, the persisted config and *)
(* checkpoint save / load.  The file system under base_run_dir/exp_name is *)
(* the shared state; every function of the source is an operator on it    *)
(* and every call is an action.                                            *)
(***************************************************************************)
EXTENDS Integers, Sequences, FiniteSets, TLC

VARIABLES
    run_dirs,   \* run id -> the directory base_run_dir/exp_name/run_<id>: is it a directory, its lock files
    ret,        \* the call that returned last: its name, its result or the error it raised
    config_file, \* exp_dir/config.yaml of the trainer's run directory
    only_save_most_recent, \* CheckpointConfig.only_save_most_recent of this run
    ckpt_dir,   \* does exp_dir/checkpoints exist
    ckpt_files, \* step n -> the file checkpoints/ckpt.<n>.pt
    last_ckpt,  \* the symlink checkpoints/ckpt.pt and the step it points at
    mem,        \* the trainer process's objects: run state and the state of model, task, optim, lr_sched
    pc,         \* where the trainer process is inside save_checkpoint / load_checkpoint
    frame,      \* the local variables of the call in progress
    calls,      \* the hook and load_state_dict calls made by the call in progress (or the last one)
    sched,      \* the Slurm scheduler: the jobs submitted with sbatch, in order
    slurm,      \* SlurmTrainer.launch: where the call is and its local variables
    ddp,        \* DDPTrainer.launch: the parent's locals and environment, the worker processes
    racers,      \* pid -> a process inside add_lock_file, between its existence check and its write
    tasks,      \* the tasks srun starts for one job, each running slurm_main, and the job's shape
    multi,      \* a MultiIterDataset being iterated: remaining child iterators, their rates, what was yielded
    stream,     \* a StreamingDataset being iterated by one worker: reservoir, pointer, open iterators
    prefetch,   \* a Prefetcher over a dataloader: the dataloader iterator, the prefetched batch, what was yielded
    os_environ  \* os.environ of the process that reads and writes the global tags

(***************************************************************************)
(* Bounds                                                                  *)
(***************************************************************************)
\* run ids 0 .. MaxRuns-1 can exist on disk; every larger id is absent
MaxRuns == 1

RunIds == 0 .. (MaxRuns - 1)

\* get_run_id scans a base directory in which run_0 .. run_(MaxScan-1) can exist
MaxScan == 3

\* sequence nodes of a config hold at most MaxLen elements
MaxLen == 2

\* run states passed to save_checkpoint have num_steps in 0 .. MaxSteps
MaxSteps == 1

Steps == 0 .. MaxSteps

\* SlurmTrainerConfig.num_jobs is in 0 .. MaxJobs
MaxJobs == 2

\* self._device.device_count() is in 0 .. MaxDevices
MaxDevices == 2

\* a Slurm job runs on 1 .. MaxNodes nodes
MaxNodes == 2

\* with 1 .. MaxTasksPerNode tasks on each node
MaxTasksPerNode == 2

\* a MultiIterDataset combines 0 .. MaxChildren child datasets
MaxChildren == 3

\* a child dataset yields 0 .. MaxItems items
MaxItems == 1

\* sampling rates are the whole numbers 1 .. MaxRate
MaxRate == 2

\* StreamingDataset.max_simultaneous is in 1 .. MaxSimultaneous
MaxSimultaneous == 2

\* a StreamingDataset opens at most MaxOpens child iterators in a run
MaxOpens == 3

\* a tag is 1 .. MaxTagLen characters long
MaxTagLen == 2

\* set_global_tags is given at most MaxTags tags at once
MaxTags == 2

\* a process makes at most MaxCalls calls that write the global tags
MaxCalls == 2

\* a dataloader produces 0 .. MaxBatches batches in one pass
MaxBatches == 3

\* a Prefetcher is iterated at most MaxPasses times
MaxPasses == 2

\* a dataloader runs 1 .. MaxWorkers worker processes
MaxWorkers == 2

\* ranks 0 .. WorldSize-1 of a multi-worker run
WorldSize == 2

Ranks == 0 .. (WorldSize - 1)

\* os.getpid() of the processes that call into the lock manager
Pids == {"4711", "4712"}

(***************************************************************************)
(* Files                                                                   *)
(***************************************************************************)
Absent == [exists |-> FALSE]

File(c) == [exists |-> TRUE, content |-> c]

\* LockType = Literal["running", "scheduled", "ckpt"]
LockTypes == {"running", "scheduled", "ckpt"}

\* lock_type=None of has_lock_file
None == "None"

NoLocks == [k \in LockTypes |-> Absent]

NoDir == [is_dir |-> FALSE, locks |-> NoLocks]

EmptyDir == [is_dir |-> TRUE, locks |-> NoLocks]

\* the run directory run_<n> as the file system shows it
get_exp_dir(dirs, n) == IF n \in DOMAIN dirs THEN dirs[n] ELSE NoDir

\* f"PID: {os.getpid()}"
PidText(pid) == <<"PID: ", pid>>

(***************************************************************************)
(* Lock manager                                                            *)
(***************************************************************************)
\* has_lock_file(exp_dir, lock_type): one kind, or any of the three for None
has_lock_file(d, lock_type) ==
    IF lock_type # None
    THEN d.is_dir /\ d.locks[lock_type].exists
    ELSE \E k \in LockTypes : d.is_dir /\ d.locks[k].exists

add_lock_file_ignores_flag(d, lock_type, exists_ok, pid) ==
    IF d.is_dir /\ d.locks[lock_type].exists
    THEN [dir |-> [d EXCEPT !.locks[lock_type] = File(PidText(pid))], raised |-> "none"]
    ELSE IF ~d.is_dir
    THEN [dir |-> d, raised |-> "FileNotFoundError"]
    ELSE [dir |-> [d EXCEPT !.locks[lock_type] = File(PidText(pid))], raised |-> "none"]

add_lock_file_rewrites(d, lock_type, exists_ok, pid) ==
    IF d.is_dir /\ d.locks[lock_type].exists
    THEN IF ~exists_ok
         THEN [dir |-> d, raised |-> "RuntimeError"]
         ELSE [dir |-> [d EXCEPT !.locks[lock_type] = File(PidText(pid))], raised |-> "none"]
    ELSE IF ~d.is_dir
    THEN [dir |-> d, raised |-> "FileNotFoundError"]
    ELSE [dir |-> [d EXCEPT !.locks[lock_type] = File(PidText(pid))], raised |-> "none"]

\* add_lock_file(exp_dir, lock_type, exists_ok): the directory afterwards and the error raised
add_lock_file(d, lock_type, exists_ok, pid) ==
    IF d.is_dir /\ d.locks[lock_type].exists
    THEN IF ~exists_ok
         THEN [dir |-> d, raised |-> "RuntimeError"]
         ELSE [dir |-> d, raised |-> "none"]
    ELSE IF ~d.is_dir
    THEN [dir |-> d, raised |-> "FileNotFoundError"]   \* open(lock_file, "w") in a missing directory
    ELSE [dir |-> [d EXCEPT !.locks[lock_type] = File(PidText(pid))], raised |-> "none"]

remove_lock_file_reports_true(d, lock_type, missing_ok) ==
    IF d.is_dir /\ d.locks[lock_type].exists
    THEN [dir |-> [d EXCEPT !.locks[lock_type] = Absent], raised |-> "none", value |-> TRUE]
    ELSE IF ~missing_ok
    THEN [dir |-> d, raised |-> "RuntimeError", value |-> FALSE]
    ELSE [dir |-> d, raised |-> "none", value |-> TRUE]

\* remove_lock_file(exp_dir, lock_type, missing_ok): the directory afterwards, the error, the returned bool
remove_lock_file(d, lock_type, missing_ok) ==
    IF d.is_dir /\ d.locks[lock_type].exists
    THEN [dir |-> [d EXCEPT !.locks[lock_type] = Absent], raised |-> "none", value |-> TRUE]
    ELSE IF ~missing_ok
    THEN [dir |-> d, raised |-> "RuntimeError", value |-> FALSE]
    ELSE [dir |-> d, raised |-> "none", value |-> FALSE]

(***************************************************************************)
(* Run locator                                                             *)
(***************************************************************************)
scan_run_id_once(dirs, n) ==
    IF get_exp_dir(dirs, n).is_dir /\ has_lock_file(get_exp_dir(dirs, n), None)
    THEN n + 1
    ELSE n

RECURSIVE scan_run_id(_, _)
\* the while loop of get_run_id, entered with run_id = n
scan_run_id(dirs, n) ==
    IF get_exp_dir(dirs, n).is_dir /\ has_lock_file(get_exp_dir(dirs, n), None)
    THEN scan_run_id(dirs, n + 1)
    ELSE n

\* get_run_id(base_run_dir, exp_name)
get_run_id(dirs) == scan_run_id(dirs, 0)

(***************************************************************************)
(* Config store: config trees, their YAML form and diff_configs            *)
(***************************************************************************)
\* config.run_id of the trainer whose exp_dir the config and checkpoints live in
ExpRunId == 0

\* nodes of an OmegaConf tree
Scalar(v) == [t |-> "int", i |-> v]

\* the float nan, a scalar that compares unequal to every value, itself included
NaN == [t |-> "nan"]

Missing == [t |-> "missing"]

DictConfig(f) == [t |-> "dict", d |-> f]

ListConfig(s) == [t |-> "list", l |-> s]

\* isinstance(val, any_config)
is_config(val) == val.t \in {"dict", "list"}

\* a mapping node with the keys ks, from a record of optional values (Absent: key not set)
DictOf(ks, f) == DictConfig([k \in {j \in ks : f[j] # Absent} |-> f[k]])

SeqsUpTo(S, n) == UNION {[1 .. m -> S] : m \in 0 .. n}

ScalarNodes == {Scalar(1), Scalar(2)}

\* mappings nested below the root: the key x, unset, missing or a scalar
SubDicts == {DictOf({"x"}, [x |-> v]) : v \in ScalarNodes \cup {Missing, Absent}}

\* sequences of scalars and mappings
ListNodes == {ListConfig(s) : s \in SeqsUpTo(ScalarNodes \cup {DictOf({"x"}, [x |-> v]) : v \in ScalarNodes}, MaxLen)}

\* the raw configs handed to save_config: root mappings over the keys a and b
Configs ==
    {DictOf({"a", "b"}, [a |-> va, b |-> vb]) :
        va \in ScalarNodes \cup SubDicts \cup ListNodes \cup {Missing, Absent},
        vb \in ScalarNodes \cup {Absent}}

\* the items of the sequences handed to diff_configs directly
DiffItems == ScalarNodes \cup {DictOf({"x"}, [x |-> v]) : v \in ScalarNodes}

\* the configs handed to diff_configs directly: root mappings over a and b, and root sequences
DiffInputs ==
    {DictOf({"a", "b"}, [a |-> va, b |-> vb]) :
        va \in ScalarNodes \cup SubDicts \cup {NaN, Missing, Absent}
               \cup {ListConfig(q) : q \in SeqsUpTo(DiffItems, MaxLen)},
        vb \in {Scalar(1), NaN, Absent}}
    \cup {ListConfig(q) : q \in SeqsUpTo(DiffItems, MaxLen)}

RECURSIVE yaml_dump(_)
\* OmegaConf.save: the YAML document of a tree; a missing value is written as the string ???
yaml_dump(val) ==
    CASE val.t = "missing" -> [t |-> "str", s |-> "???"]
      [] val.t = "dict" -> [t |-> "map", m |-> [k \in DOMAIN val.d |-> yaml_dump(val.d[k])]]
      [] val.t = "list" -> [t |-> "seq", q |-> [i \in DOMAIN val.l |-> yaml_dump(val.l[i])]]
      [] OTHER -> val

RECURSIVE yaml_load(_)
\* OmegaConf.load: the tree of a YAML document; the string ??? reads back as a missing value
yaml_load(doc) ==
    CASE doc.t = "str" -> IF doc.s = "???" THEN Missing ELSE doc
      [] doc.t = "map" -> DictConfig([k \in DOMAIN doc.m |-> yaml_load(doc.m[k])])
      [] doc.t = "seq" -> ListConfig([i \in DOMAIN doc.q |-> yaml_load(doc.q[i])])
      [] OTHER -> doc

\* prefix=None of diff_configs; a prefix is otherwise a non-empty text
NoPrefix == <<>>

\* f"{prefix}": texts are sequences of pieces
PrefixText(prefix) == IF prefix = NoPrefix THEN <<"None">> ELSE prefix

\* key if prefix is None else f"{prefix}.{key}"
sub_prefix(prefix, key) == IF prefix = NoPrefix THEN <<key>> ELSE prefix \o <<".", key>>

\* type(val) as get_diff_string prints it
TypeText(val) ==
    IF val.t = "dict" THEN "<class 'omegaconf.dictconfig.DictConfig'>"
    ELSE "<class 'omegaconf.listconfig.ListConfig'>"

\* get_diff_string(prefix, val)
get_diff_string(prefix, val) ==
    IF val.t = "int"
    THEN PrefixText(prefix) \o <<"=", ToString(val.i)>>
    ELSE IF val.t = "nan"
    THEN PrefixText(prefix) \o <<"=", "nan">>
    ELSE PrefixText(prefix) \o <<"= ... (", TypeText(val), ")">>

\* cast_enums(first[key]) != cast_enums(second[key]) for two values that are not both trees
values_differ(a, b) == IF a.t # b.t THEN TRUE ELSE IF a.t = "nan" THEN TRUE ELSE a # b

\* the keys of the root mappings; the nested mappings have the one key x
ConfigKeys == {"a", "b"}

\* the orders in which the key set of a config may be iterated: the order follows the
\* hashes of the strings, which the interpreter seeds afresh in every process, and for keys
\* whose hashes share a slot the order in which the config holds its keys, so that the key
\* sets of two configs need not agree (x never shares a set with another key, so only the
\* order of a and b shows)
KeyOrders ==
    {o \o <<"x">> : o \in {q \in [1 .. Cardinality(ConfigKeys) -> ConfigKeys] :
                                \A k \in ConfigKeys : \E i \in DOMAIN q : q[i] = k}}

\* the elements of a set of keys in the order its iteration yields them when the set's
\* table holds the keys in key_order
set_iter(S, key_order) == SelectSeq(key_order, LAMBDA k : k \in S)

Min(a, b) == IF a < b THEN a ELSE b

NoDiff == [first |-> <<>>, second |-> <<>>]

RECURSIVE diff_configs(_, _, _, _, _)
RECURSIVE diff_common_keys(_, _, _, _, _, _)
RECURSIVE diff_list_items(_, _, _, _, _, _)
RECURSIVE diff_strings_from(_, _, _)

\* [get_diff_string(prefix, items[i]) for i in range(start, len(items))], start counted from 0
diff_strings_from(prefix, items, start) ==
    IF start >= Len(items) THEN <<>>
    ELSE <<get_diff_string(prefix, items[start + 1])>> \o diff_strings_from(prefix, items, start + 1)

\* the loop over first_keys.intersection(second_keys), lines 166-179
diff_common_keys(first, second, prefix, keys, first_order, second_order) ==
    IF keys = <<>> THEN NoDiff
    ELSE
      LET key == Head(keys)
          sub == sub_prefix(prefix, key)
          a == first.d[key]
          b == second.d[key]
          here ==
            IF a.t = "missing" \/ b.t = "missing"
            THEN [first |-> IF a.t # "missing" THEN <<get_diff_string(sub, a)>> ELSE <<>>,
                  second |-> IF b.t # "missing" THEN <<get_diff_string(sub, b)>> ELSE <<>>]
            ELSE IF is_config(a) /\ is_config(b)
            THEN diff_configs(a, b, sub, first_order, second_order)
            ELSE IF values_differ(a, b)
            THEN [first |-> <<get_diff_string(sub, a)>>, second |-> <<get_diff_string(sub, b)>>]
            ELSE NoDiff
          rest == diff_common_keys(first, second, prefix, Tail(keys), first_order, second_order)
      IN [first |-> here.first \o rest.first, second |-> here.second \o rest.second]

\* the loop over range(min(len(first), len(second))), lines 189-193; i counted from 0
diff_list_items(first, second, prefix, i, first_order, second_order) ==
    IF i >= Min(Len(first.l), Len(second.l)) THEN NoDiff
    ELSE
      LET sub == sub_prefix(prefix, ToString(i))
          here == IF is_config(first.l[i + 1]) /\ is_config(second.l[i + 1])
                  THEN diff_configs(first.l[i + 1], second.l[i + 1], sub, first_order, second_order)
                  ELSE NoDiff
          rest == diff_list_items(first, second, prefix, i + 1, first_order, second_order)
      IN [first |-> here.first \o rest.first, second |-> here.second \o rest.second]

\* diff_configs(first, second, prefix): (new_first, new_second), where the key set of first
\* iterates in first_order and that of second in second_order; a difference iterates as the
\* set it is taken from, the intersection of line 166 as its argument second_keys
diff_configs(first, second, prefix, first_order, second_order) ==
    IF first.t = "dict" /\ second.t = "dict"
    THEN LET first_keys == DOMAIN first.d
             second_keys == DOMAIN second.d
             only_first == [i \in DOMAIN set_iter(first_keys \ second_keys, first_order) |->
                              PrefixText(prefix) \o <<".", set_iter(first_keys \ second_keys, first_order)[i]>>]
             only_second == [i \in DOMAIN set_iter(second_keys \ first_keys, second_order) |->
                              PrefixText(prefix) \o <<".", set_iter(second_keys \ first_keys, second_order)[i]>>]
             common == diff_common_keys(first, second, prefix,
                                        set_iter(first_keys \cap second_keys, second_order),
                                        first_order, second_order)
         IN [first |-> only_first \o common.first, second |-> only_second \o common.second]
    ELSE IF first.t = "list" /\ second.t = "list"
    THEN LET extra_first == IF Len(first.l) > Len(second.l)
                            THEN diff_strings_from(prefix, first.l, Len(second.l)) ELSE <<>>
             extra_second == IF Len(second.l) > Len(first.l)
                             THEN diff_strings_from(prefix, second.l, Len(first.l)) ELSE <<>>
             items == diff_list_items(first, second, prefix, 0, first_order, second_order)
         IN [first |-> extra_first \o items.first, second |-> extra_second \o items.second]
    ELSE [first |-> <<get_diff_string(prefix, first)>>, second |-> <<get_diff_string(prefix, second)>>]

\* save_config(exp_dir, raw_config): config.yaml afterwards, whether it was written, the diff
\* logged, where the keys of raw_config iterate in first_order and those of the stored
\* config in second_order
save_config(file, raw_config, first_order, second_order) ==
    IF file.exists
    THEN LET d == diff_configs(raw_config, yaml_load(file.content), NoPrefix, first_order, second_order) IN
         IF d.first # <<>> \/ d.second # <<>>
         THEN [file |-> File(yaml_dump(raw_config)), wrote |-> TRUE, added_keys |-> d.first, deleted_keys |-> d.second]
         ELSE [file |-> file, wrote |-> FALSE, added_keys |-> <<>>, deleted_keys |-> <<>>]
    ELSE [file |-> File(yaml_dump(raw_config)), wrote |-> TRUE, added_keys |-> <<>>, deleted_keys |-> <<>>]

(***************************************************************************)
(* Checkpoint manager: run state, bundles, paths                           *)
(***************************************************************************)
\* Phase = Literal["train", "valid", "test"]
Phases == {"train", "valid", "test"}

\* State.init_state()
init_state ==
    [num_epochs |-> 0, num_steps |-> 0, num_samples |-> 0,
     num_valid_steps |-> 0, num_test_steps |-> 0, raw_phase |-> "train"]

\* a run state the training loop hands to save_checkpoint after n steps, in phase ph
RunStateAt(n, ph) ==
    [num_epochs |-> IF n > 0 THEN n - 1 ELSE 0,
     num_steps |-> n,
     num_samples |-> n + n,
     num_valid_steps |-> IF ph = "valid" THEN n ELSE 0,
     num_test_steps |-> IF ph = "test" THEN n + 1 ELSE 0,
     raw_phase |-> ph]

RunStates == {RunStateAt(n, ph) : n \in Steps, ph \in Phases}

\* State.phase: cast_phase(raw_phase)
phase(state) == state.raw_phase

\* the stateful components whose state_dict goes into a bundle, in load order
Components == <<"model", "task", "optim", "lr_sched">>

\* the objects of a process that has trained up to run state s
ObjectsAt(s) ==
    [state |-> s, model |-> s.num_steps, task |-> s.num_steps,
     optim |-> s.num_steps, lr_sched |-> s.num_steps]

\* state=None of get_ckpt_path
NoState == [none |-> TRUE]

\* get_ckpt_path(exp_dir, state): ckpt.pt for None, ckpt.<num_steps>.pt otherwise
get_ckpt_path(state) ==
    IF state = NoState
    THEN [latest |-> TRUE]
    ELSE [latest |-> FALSE, step |-> state.num_steps]

\* the checkpoint paths a caller may load from
CkptPaths == {get_ckpt_path(NoState)} \cup {get_ckpt_path(s) : s \in RunStates}

\* the regular file a path leads to, following the symlink ckpt.pt
file_at(files, link, path) ==
    IF path.latest
    THEN IF link.exists THEN files[link.target] ELSE Absent
    ELSE files[path.step]

\* Path.exists(): follows symlinks, so a symlink whose target is gone does not exist
path_exists(files, link, path) == file_at(files, link, path).exists

\* torch.save has opened the file and not finished writing it
Truncated == [complete |-> FALSE]

\* torch.save(state_dict, path): the pickled bundle
torch_save(state_dict) == [complete |-> TRUE, obj |-> state_dict]

\* torch.load(path): the bundle, or the error raised
torch_load(file) ==
    IF ~file.exists THEN [raised |-> "FileNotFoundError"]
    ELSE IF ~file.content.complete THEN [raised |-> "UnpicklingError"]
    ELSE [raised |-> "none", ckpt |-> file.content.obj]

\* lines 344-350: the bundle built from the objects
build_state_dict(objs) ==
    [model |-> objs.model, task |-> objs.task, optim |-> objs.optim,
     lr_sched |-> objs.optim, state |-> objs.state]

\* the rank for which is_master() holds
MasterRank == 0

\* ml.utils.distributed.is_master() in the process of rank r
is_master(r) == r = MasterRank

save_checkpoint_enters_always(r) == TRUE

\* line 338: does save_checkpoint do anything in the process of rank r
save_checkpoint_enters(r) == is_master(r)

\* os.getpid() of the trainer process
TrainerPid == "4711"

\* what load_checkpoint(ckpt_path, ...) returns or raises, lines 320-328
load_checkpoint_result(files, link, path) ==
    LET r == torch_load(file_at(files, link, path)) IN
    IF r.raised # "none" THEN r ELSE [raised |-> "none", value |-> r.ckpt.state]

(***************************************************************************)
(* Actions of the lock manager and the run locator                         *)
(***************************************************************************)
cfg_vars == <<config_file>>

data_vars == <<tasks, multi, stream, prefetch, os_environ>>

launch_vars == <<sched, slurm, ddp, racers, data_vars>>

ckpt_vars == <<only_save_most_recent, ckpt_dir, ckpt_files, last_ckpt, mem, pc, frame, calls>>

\* config_path.parent.mkdir(exist_ok=True, parents=True): the run directory comes to exist
MakeExpDir(n) ==
    /\ ~run_dirs[n].is_dir
    /\ run_dirs' = [run_dirs EXCEPT ![n] = EmptyDir]
    /\ ret' = [op |-> "mkdir"]
    /\ UNCHANGED <<cfg_vars, launch_vars, ckpt_vars>>

\* BaseTrainerConfig.resolve: config.run_id = get_run_id(base_run_dir, exp_name)
GetRunId ==
    /\ ret' = [op |-> "get_run_id", value |-> get_run_id(run_dirs)]
    /\ UNCHANGED <<run_dirs, cfg_vars, launch_vars, ckpt_vars>>

AddLockFile(n, lock_type, exists_ok, pid) ==
    LET r == add_lock_file(run_dirs[n], lock_type, exists_ok, pid) IN
    /\ run_dirs' = [run_dirs EXCEPT ![n] = r.dir]
    /\ ret' = [op |-> "add_lock_file", raised |-> r.raised, returned |-> {}]   \* -> None: no value comes back
    /\ UNCHANGED <<cfg_vars, launch_vars, ckpt_vars>>

RemoveLockFile(n, lock_type, missing_ok) ==
    LET r == remove_lock_file(run_dirs[n], lock_type, missing_ok) IN
    /\ run_dirs' = [run_dirs EXCEPT ![n] = r.dir]
    /\ ret' = [op |-> "remove_lock_file", raised |-> r.raised, value |-> r.value]
    /\ UNCHANGED <<cfg_vars, launch_vars, ckpt_vars>>

\* BaseTrainer.save_config: save_config(self.exp_dir, self.raw_config)
SaveConfig(raw_config) ==
    \E r \in {save_config(config_file, raw_config, first_order, second_order) :
                first_order \in KeyOrders, second_order \in KeyOrders} :
    /\ config_file' = r.file
    /\ run_dirs' = IF config_file.exists THEN run_dirs ELSE [run_dirs EXCEPT ![ExpRunId].is_dir = TRUE]
    /\ ret' = [op |-> "save_config", raw_config |-> raw_config,
               loaded |-> IF config_file.exists THEN {yaml_load(config_file.content)} ELSE {},
               added_keys |-> r.added_keys, deleted_keys |-> r.deleted_keys]
    /\ UNCHANGED <<launch_vars, ckpt_vars>>

\* diff_configs(first, second) called on the two configs as given
DiffForward ==
    /\ ret.op = "diff_configs"
    /\ ret.forward = {}
    /\ ret' = [ret EXCEPT !.forward =
                  {diff_configs(ret.first, ret.second, NoPrefix, ret.first_order, ret.second_order)}]
    /\ UNCHANGED <<run_dirs, cfg_vars, launch_vars, ckpt_vars>>

\* diff_configs(second, first): the same two configs in the other order
DiffBackward ==
    /\ ret.op = "diff_configs"
    /\ ret.backward = {}
    /\ ret' = [ret EXCEPT !.backward =
                  {diff_configs(ret.second, ret.first, NoPrefix, ret.second_order, ret.first_order)}]
    /\ UNCHANGED <<run_dirs, cfg_vars, launch_vars, ckpt_vars>>

(***************************************************************************)
(* Actions of the checkpoint manager                                       *)
(***************************************************************************)
NoFrame == [op |-> "none"]

\* the training loop (outside this module) advances the objects to run state s
Train(s) ==
    /\ pc = "idle"
    /\ mem.state # s
    /\ mem' = ObjectsAt(s)
    /\ ret' = [op |-> "train"]
    /\ calls' = <<>>
    /\ UNCHANGED <<run_dirs, cfg_vars, launch_vars, only_save_most_recent, ckpt_dir, ckpt_files, last_ckpt, pc, frame>>

\* save_checkpoint in a process for which is_master() is false: line 338 skips the body
SaveSkip(r) ==
    /\ ~save_checkpoint_enters(r)
    /\ ret' = [op |-> "save_checkpoint", rank |-> r, entered |-> FALSE]
    /\ UNCHANGED <<run_dirs, cfg_vars, launch_vars, ckpt_vars>>

\* lines 338-351: paths computed, checkpoints/ created, the bundle built from the objects
SaveBegin(r) ==
    /\ pc = "idle"
    /\ save_checkpoint_enters(r)
    /\ frame' = [op |-> "save", rank |-> r, state |-> mem.state,
                 ckpt_path |-> get_ckpt_path(mem.state),
                 last_ckpt_path |-> get_ckpt_path(NoState),
                 state_dict |-> build_state_dict(mem),
                 existed |-> FALSE, base_ckpt |-> {}, link_failed |-> FALSE]
    /\ ckpt_dir' = TRUE
    /\ run_dirs' = [run_dirs EXCEPT ![ExpRunId].is_dir = TRUE]
    /\ calls' = <<>>
    /\ ret' = [op |-> "running"]
    /\ pc' = "s_check"
    /\ UNCHANGED <<cfg_vars, launch_vars, only_save_most_recent, ckpt_files, last_ckpt, mem>>

SaveCheckAlias_always_prunes ==
    /\ pc = "s_check"
    /\ LET e == path_exists(ckpt_files, last_ckpt, frame.last_ckpt_path) IN
        /\ frame' = [frame EXCEPT !.existed = e]
        /\ pc' = IF e THEN "s_rm_target" ELSE "s_save"
    /\ UNCHANGED <<run_dirs, ret, cfg_vars, launch_vars, only_save_most_recent, ckpt_dir, ckpt_files, last_ckpt, mem, calls>>

\* lines 352-353: last_ckpt_path.exists() and the retention flag choose the branch
SaveCheckAlias ==
    /\ pc = "s_check"
    /\ LET e == path_exists(ckpt_files, last_ckpt, frame.last_ckpt_path) IN
        /\ frame' = [frame EXCEPT !.existed = e]
        /\ pc' = IF e THEN (IF only_save_most_recent THEN "s_rm_target" ELSE "s_rm_alias")
                 ELSE "s_save"
    /\ UNCHANGED <<run_dirs, ret, cfg_vars, launch_vars, only_save_most_recent, ckpt_dir, ckpt_files, last_ckpt, mem, calls>>

SaveUnlinkTarget_keeps_file ==
    /\ pc = "s_rm_target"
    /\ frame' = [frame EXCEPT !.base_ckpt = {last_ckpt.target}]
    /\ pc' = "s_rm_alias"
    /\ UNCHANGED <<run_dirs, ret, cfg_vars, launch_vars, only_save_most_recent, ckpt_dir, ckpt_files, last_ckpt, mem, calls>>

\* lines 354-356: base_ckpt = last_ckpt_path.resolve(); unlinked if it is a file
SaveUnlinkTarget ==
    /\ pc = "s_rm_target"
    /\ LET base_ckpt == last_ckpt.target IN
        /\ ckpt_files' = IF ckpt_files[base_ckpt].exists
                         THEN [ckpt_files EXCEPT ![base_ckpt] = Absent]
                         ELSE ckpt_files
        /\ frame' = [frame EXCEPT !.base_ckpt = {base_ckpt}]
    /\ pc' = "s_rm_alias"
    /\ UNCHANGED <<run_dirs, ret, cfg_vars, launch_vars, only_save_most_recent, ckpt_dir, last_ckpt, mem, calls>>

\* line 357: last_ckpt_path.unlink()
SaveUnlinkAlias ==
    /\ pc = "s_rm_alias"
    /\ last_ckpt' = Absent
    /\ pc' = "s_save"
    /\ UNCHANGED <<run_dirs, ret, cfg_vars, launch_vars, only_save_most_recent, ckpt_dir, ckpt_files, mem, frame, calls>>

\* line 358, first half: torch.save opens ckpt_path for writing, truncating what was there
SaveOpen ==
    /\ pc = "s_save"
    /\ ckpt_files' = [ckpt_files EXCEPT ![frame.ckpt_path.step] = File(Truncated)]
    /\ pc' = "s_write"
    /\ UNCHANGED <<run_dirs, ret, cfg_vars, launch_vars, only_save_most_recent, ckpt_dir, last_ckpt, mem, frame, calls>>

\* line 358, second half: the pickled bundle is in the file
SaveWrite ==
    /\ pc = "s_write"
    /\ ckpt_files' = [ckpt_files EXCEPT ![frame.ckpt_path.step] = File(torch_save(frame.state_dict))]
    /\ pc' = "s_link"
    /\ UNCHANGED <<run_dirs, ret, cfg_vars, launch_vars, only_save_most_recent, ckpt_dir, last_ckpt, mem, frame, calls>>

\* lines 359-362: last_ckpt_path.symlink_to(ckpt_path); FileExistsError is logged and swallowed
SaveSymlink ==
    /\ pc = "s_link"
    /\ IF last_ckpt.exists
       THEN /\ frame' = [frame EXCEPT !.link_failed = TRUE]
            /\ UNCHANGED last_ckpt
       ELSE /\ last_ckpt' = [exists |-> TRUE, target |-> frame.ckpt_path.step]
            /\ UNCHANGED frame
    /\ pc' = "s_lock"
    /\ UNCHANGED <<run_dirs, ret, cfg_vars, launch_vars, only_save_most_recent, ckpt_dir, ckpt_files, mem, calls>>

\* line 363: self.add_lock_file("ckpt", exists_ok=True)
SaveAddLock ==
    /\ pc = "s_lock"
    /\ run_dirs' = [run_dirs EXCEPT ![ExpRunId] = add_lock_file(run_dirs[ExpRunId], "ckpt", TRUE, TrainerPid).dir]
    /\ pc' = "s_hook"
    /\ UNCHANGED <<ret, cfg_vars, launch_vars, only_save_most_recent, ckpt_dir, ckpt_files, last_ckpt, mem, frame, calls>>

SaveHook_not_after_link_failure ==
    /\ pc = "s_hook"
    /\ calls' = IF frame.link_failed THEN calls
                ELSE Append(calls, [fn |-> "task.on_after_save_checkpoint", ckpt_path |-> frame.ckpt_path])
    /\ ret' = [op |-> "save_checkpoint", rank |-> frame.rank, entered |-> TRUE,
               existed |-> frame.existed, base_ckpt |-> frame.base_ckpt,
               link_failed |-> frame.link_failed]
    /\ pc' = "idle"
    /\ frame' = NoFrame
    /\ UNCHANGED <<run_dirs, cfg_vars, launch_vars, only_save_most_recent, ckpt_dir, ckpt_files, last_ckpt, mem>>

\* line 364: task.on_after_save_checkpoint(ckpt_path), then the call returns
SaveHook ==
    /\ pc = "s_hook"
    /\ calls' = Append(calls, [fn |-> "task.on_after_save_checkpoint", ckpt_path |-> frame.ckpt_path])
    /\ ret' = [op |-> "save_checkpoint", rank |-> frame.rank, entered |-> TRUE,
               existed |-> frame.existed, base_ckpt |-> frame.base_ckpt,
               link_failed |-> frame.link_failed]
    /\ pc' = "idle"
    /\ frame' = NoFrame
    /\ UNCHANGED <<run_dirs, cfg_vars, launch_vars, only_save_most_recent, ckpt_dir, ckpt_files, last_ckpt, mem>>

load_checkpoint_steps_restore_first ==
    <<"model.load_state_dict", "task.on_after_load_checkpoint", "task.load_state_dict",
      "optim.load_state_dict", "lr_sched.load_state_dict", "trainer.load_state_dict">>

\* lines 321-326 of load_checkpoint: the calls made on the loaded bundle, in program order
load_checkpoint_steps ==
    <<"task.on_after_load_checkpoint", "model.load_state_dict", "task.load_state_dict",
      "optim.load_state_dict", "lr_sched.load_state_dict", "trainer.load_state_dict">>

\* the components whose state a call replaces: X.load_state_dict(ckpt["X"]) replaces the state
\* of X, and SchedulerAdapter keeps no state of its own (its state_dict and load_state_dict are
\* those of the optimizer it wraps), so the calls on optim and on lr_sched each replace the one
\* state both report
restored_by(fn) ==
    IF fn[2] # ".load_state_dict" THEN {}
    ELSE IF fn[1] \in {"optim", "lr_sched"} THEN {"optim", "lr_sched"}
    ELSE {c \in {"model", "task"} : c = fn[1]}

\* the name of a call split at its dot
CallParts(fn) ==
    CASE fn = "model.load_state_dict" -> <<"model", ".load_state_dict">>
      [] fn = "task.load_state_dict" -> <<"task", ".load_state_dict">>
      [] fn = "optim.load_state_dict" -> <<"optim", ".load_state_dict">>
      [] fn = "lr_sched.load_state_dict" -> <<"lr_sched", ".load_state_dict">>
      [] OTHER -> <<fn, "">>

\* line 320: ckpt = torch.load(ckpt_path); an error leaves load_checkpoint at once
LoadBegin(path) ==
    /\ pc = "idle"
    /\ calls' = <<>>
    /\ LET r == torch_load(file_at(ckpt_files, last_ckpt, path)) IN
       IF r.raised # "none"
       THEN /\ ret' = [op |-> "load_checkpoint", raised |-> r.raised]
            /\ UNCHANGED <<pc, frame>>
       ELSE /\ ret' = [op |-> "running"]
            /\ pc' = "l_steps"
            /\ frame' = [op |-> "load", ckpt_path |-> path, ckpt |-> r.ckpt, i |-> 1]
    /\ UNCHANGED <<run_dirs, cfg_vars, launch_vars, only_save_most_recent, ckpt_dir, ckpt_files, last_ckpt, mem>>

\* one of lines 321-326: the hook, or X.load_state_dict(ckpt["X"]), which overwrites the state
\* behind X
LoadStep ==
    /\ pc = "l_steps"
    /\ frame.i <= Len(load_checkpoint_steps)
    /\ LET fn == load_checkpoint_steps[frame.i]
           cs == restored_by(CallParts(fn))
       IN /\ calls' = Append(calls, [fn |-> fn])
          /\ mem' = [c \in DOMAIN mem |-> IF c \in cs THEN frame.ckpt[CallParts(fn)[1]] ELSE mem[c]]
    /\ frame' = [frame EXCEPT !.i = @ + 1]
    /\ UNCHANGED <<run_dirs, ret, cfg_vars, launch_vars, only_save_most_recent, ckpt_dir, ckpt_files, last_ckpt, pc>>

\* lines 327-328: state = ckpt["state"]; return state
LoadReturn ==
    /\ pc = "l_steps"
    /\ frame.i > Len(load_checkpoint_steps)
    /\ ret' = [op |-> "load_checkpoint", raised |-> "none", value |-> frame.ckpt["state"]]
    /\ pc' = "l_done"
    /\ frame' = [op |-> "caller", state |-> frame.ckpt["state"]]
    /\ UNCHANGED <<run_dirs, cfg_vars, launch_vars, only_save_most_recent, ckpt_dir, ckpt_files, last_ckpt, mem, calls>>

\* the caller of load_checkpoint (outside this module) resumes from the run state it was handed
Resume ==
    /\ pc = "l_done"
    /\ mem' = [mem EXCEPT !.state = frame.state]
    /\ pc' = "idle"
    /\ frame' = NoFrame
    /\ UNCHANGED <<run_dirs, ret, cfg_vars, launch_vars, only_save_most_recent, ckpt_dir, ckpt_files, last_ckpt, calls>>

\* the process is killed inside a call (preemption, SIGKILL) and a new one is launched on the same run directory
Kill ==
    /\ pc # "idle"
    /\ pc' = "idle"
    /\ frame' = NoFrame
    /\ mem' = ObjectsAt(init_state)
    /\ calls' = <<>>
    /\ ret' = [op |-> "killed"]
    /\ UNCHANGED <<run_dirs, cfg_vars, launch_vars, only_save_most_recent, ckpt_dir, ckpt_files, last_ckpt>>

(***************************************************************************)
(* Slurm launcher                                                          *)
(***************************************************************************)
\* a call that has not been made yet
NotCalled == [pc |-> "idle"]

\* the raw config of the trainer that launches
LaunchConfig == DictOf({"a", "b"}, [a |-> Scalar(1), b |-> Scalar(2)])

\* the line sbatch prints for an accepted job
SubmittedLine(id) == <<"Submitted batch job ", id>>

\* the line sbatch prints when it rejects a job
ErrorLine == <<"sbatch: error: Batch job submission failed">>

\* how a submission can go: accepted, rejected, accepted with the line printed twice
SbatchOutcomes == {"accepted", "rejected", "echoed"}

sbatch_command_no_dependency(all_run_ids) ==
    [script |-> "sbatch.sh", dependency |-> {}]

\* lines 221-223: ["sbatch", path] plus ["--dependency", all_run_ids[-1]] after the first job
sbatch_command(all_run_ids) ==
    [script |-> "sbatch.sh",
     dependency |-> IF all_run_ids # <<>> THEN {all_run_ids[Len(all_run_ids)]} ELSE {}]

\* lines 224-231: the scheduler runs the command; its queue afterwards and the text it printed
sbatch(queue, command, outcome) ==
    LET id == Len(queue) + 1 IN
    CASE outcome = "accepted" ->
            [queue |-> Append(queue, [id |-> id, command |-> command]),
             log_line |-> <<SubmittedLine(id)>>]
      [] outcome = "echoed" ->
            [queue |-> Append(queue, [id |-> id, command |-> command]),
             log_line |-> <<SubmittedLine(id), SubmittedLine(id)>>]
      [] OTHER -> [queue |-> queue, log_line |-> <<ErrorLine>>]

\* line 232: re.findall(r"Submitted batch job (\d+)", log_line)
find_run_ids(log_line) ==
    LET hits == SelectSeq(log_line, LAMBDA l : Len(l) = 2 /\ l[1] = "Submitted batch job ")
    IN [k \in DOMAIN hits |-> hits[k][2]]

\* lines 155-219: logs/ made, the config saved, sbatch.sh written, all_run_ids = []
SlurmLaunch(num_jobs) ==
    /\ slurm.pc \in {"idle", "done"}
    /\ Len(sched) <= MaxJobs
    /\ run_dirs' = [run_dirs EXCEPT ![ExpRunId].is_dir = TRUE]
    /\ \E first_order \in KeyOrders, second_order \in KeyOrders :
          config_file' = save_config(config_file, LaunchConfig, first_order, second_order).file
    /\ slurm' = [pc |-> "submit", num_jobs |-> num_jobs, i |-> 0, all_run_ids |-> <<>>,
                 sbatch_file |-> TRUE, stdout |-> <<>>, log_line |-> <<>>, raised |-> "none"]
    /\ UNCHANGED <<ret, sched, ddp, racers, data_vars, ckpt_vars>>

\* lines 220-229: a pass of the loop starts sbatch; the scheduler queues the job and sbatch
\* prints into the pipe while launch goes on to wait for it
SlurmSubmit(outcome) ==
    /\ slurm.pc = "submit"
    /\ slurm.i < slurm.num_jobs
    /\ LET r == sbatch(sched, sbatch_command(slurm.all_run_ids), outcome)
       IN /\ sched' = r.queue
          /\ slurm' = [slurm EXCEPT !.pc = "wait", !.stdout = r.log_line]
    /\ UNCHANGED <<run_dirs, ret, cfg_vars, ddp, racers, data_vars, ckpt_vars>>

\* lines 230-234: sbatch has ended and its output is read; the assert ends launch when the
\* output has not exactly one job id
SlurmWait ==
    /\ slurm.pc = "wait"
    /\ LET log_line == slurm.stdout
           run_ids == find_run_ids(log_line)
       IN slurm' = IF Len(run_ids) = 1
                   THEN [slurm EXCEPT !.pc = "submit", !.i = @ + 1, !.stdout = <<>>,
                                      !.log_line = log_line,
                                      !.all_run_ids = @ \o <<run_ids[1]>>]
                   ELSE [slurm EXCEPT !.pc = "done", !.stdout = <<>>, !.log_line = log_line,
                                      !.raised = "AssertionError"]
    /\ UNCHANGED <<run_dirs, ret, cfg_vars, sched, ddp, racers, data_vars, ckpt_vars>>

\* lines 236-239: the job ids are logged, then self.add_lock_file("scheduled", exists_ok=False)
SlurmFinish ==
    /\ slurm.pc = "submit"
    /\ slurm.i = slurm.num_jobs
    /\ LET r == add_lock_file(run_dirs[ExpRunId], "scheduled", FALSE, TrainerPid) IN
        /\ run_dirs' = [run_dirs EXCEPT ![ExpRunId] = r.dir]
        /\ slurm' = [slurm EXCEPT !.pc = "done", !.raised = r.raised]
    /\ UNCHANGED <<ret, cfg_vars, sched, ddp, racers, data_vars, ckpt_vars>>

(***************************************************************************)
(* DDP launcher                                                            *)
(***************************************************************************)
\* get_unused_port(): some free port of the machine
Ports == {29500, 29501}

\* lines 97-103: MultiprocessConfig(rank=-1, world_size=device_count, ...)
MultiprocessConfig(device_count, port) ==
    [rank |-> -1, world_size |-> device_count, devices_per_rank |-> 1,
     master_addr |-> "localhost", master_port |-> port]

\* os.environ of the parent before launch touches it: CUDA_VISIBLE_DEVICES is not set
ParentEnviron == [CUDA_VISIBLE_DEVICES |-> {}]

runs_in_process_below_one(device_count) == device_count < 1

\* line 105: if device_count <= 1
runs_in_process(device_count) == device_count <= 1

assign_rank_forgotten(cfg, rank) == cfg

\* line 122 (and 107): cfg.rank = rank, on the one config object
assign_rank(cfg, rank) == [cfg EXCEPT !.rank = rank]

\* lines 111-112: os.environ["CUDA_VISIBLE_DEVICES"] = str(rank)
set_env(environ, rank) == [environ EXCEPT !.CUDA_VISIBLE_DEVICES = {ToString(rank)}]

\* lines 124-130: ctx.Process(...).start() under the spawn context: the arguments are pickled and the
\* environment inherited at this moment, so the child holds copies
start_process(cfg, environ) ==
    [cfg |-> cfg, environ |-> environ, pc |-> "started", called |-> <<>>,
     outcome |-> "none", exitcode |-> {}, error_queue |-> <<>>, joined |-> FALSE]

\* lines 58-62 of process_main: what the worker hands to set_master_addr, set_master_port, set_rank,
\* set_world_size and set_init_method
process_main(cfg) ==
    [master_addr |-> cfg.master_addr, master_port |-> cfg.master_port, rank |-> cfg.rank,
     world_size |-> cfg.world_size, init_method |-> "env://"]

\* how the entry point can end: it returns, raises an Exception, or gets KeyboardInterrupt
EntryOutcomes == {"returns", "raises", "interrupted"}

func_wrapped_swallows(outcome) == [exitcode |-> {0}, put |-> <<>>]

\* func_wrapped, lines 76-82: the exit status of the worker and what it puts on its error queue
func_wrapped(outcome) ==
    IF outcome = "raises"
    THEN [exitcode |-> {1}, put |-> <<"traceback.format_exc()">>]
    ELSE [exitcode |-> {0}, put |-> <<>>]

\* lines 94-109 and 116-119: the config is built; below two devices the entry point is called in place
DDPLaunch(device_count, port) ==
    /\ ddp.pc = "idle"
    /\ LET cfg == MultiprocessConfig(device_count, port) IN
       IF runs_in_process(device_count)
       THEN ddp' = [pc |-> "func", device_count |-> device_count, cfg |-> assign_rank(cfg, 0),
                    environ |-> ParentEnviron, rank |-> -1, procs |-> <<>>,
                    warnings |-> <<"Multi-process DDPTrainer expects more than one device">>,
                    called |-> <<process_main(assign_rank(cfg, 0))>>, outcome |-> "none",
                    result |-> "none"]
       ELSE ddp' = [pc |-> "spawn", device_count |-> device_count, cfg |-> cfg,
                    environ |-> ParentEnviron, rank |-> 0, procs |-> <<>>,
                    warnings |-> <<>>, called |-> <<>>, outcome |-> "none", result |-> "none"]
    /\ UNCHANGED <<run_dirs, ret, cfg_vars, sched, slurm, racers, data_vars, ckpt_vars>>

\* lines 108-109: func(cfg) comes back in the calling process, then return; an exception of
\* the entry point, KeyboardInterrupt included, leaves launch
DDPFuncEnds(outcome) ==
    /\ ddp.pc = "func"
    /\ ddp' = [ddp EXCEPT !.pc = "done", !.outcome = outcome,
                          !.result = IF outcome = "returns" THEN "returned" ELSE "raised"]
    /\ UNCHANGED <<run_dirs, ret, cfg_vars, sched, slurm, racers, data_vars, ckpt_vars>>

\* lines 120-132: one pass of the loop over range(cfg.world_size); line 133 after the last
DDPSpawn ==
    /\ ddp.pc = "spawn"
    /\ LET cfg == assign_rank(ddp.cfg, ddp.rank)
           environ == set_env(ddp.environ, ddp.rank)
       IN ddp' = [ddp EXCEPT !.cfg = cfg, !.environ = environ,
                             !.procs = Append(@, start_process(cfg, environ)),
                             !.rank = @ + 1,
                             !.pc = IF ddp.rank + 1 < ddp.cfg.world_size THEN "spawn" ELSE "join"]
    /\ UNCHANGED <<run_dirs, ret, cfg_vars, sched, slurm, racers, data_vars, ckpt_vars>>

\* a worker enters func_wrapped: func(cfg) is process_main(cfg, raw_config)
WorkerMain(w) ==
    /\ ddp.pc \in {"spawn", "join"}
    /\ w \in DOMAIN ddp.procs
    /\ ddp.procs[w].pc = "started"
    /\ ddp' = [ddp EXCEPT !.procs[w].pc = "main",
                          !.procs[w].called = <<process_main(ddp.procs[w].cfg)>>]
    /\ UNCHANGED <<run_dirs, ret, cfg_vars, sched, slurm, racers, data_vars, ckpt_vars>>

\* the worker's entry point ends and func_wrapped decides how the process exits
WorkerExit(w, outcome) ==
    /\ ddp.pc \in {"spawn", "join"}
    /\ w \in DOMAIN ddp.procs
    /\ ddp.procs[w].pc = "main"
    /\ LET r == func_wrapped(outcome) IN
       ddp' = [ddp EXCEPT !.procs[w].pc = "exited", !.procs[w].outcome = outcome,
                          !.procs[w].exitcode = r.exitcode,
                          !.procs[w].error_queue = @ \o r.put]
    /\ UNCHANGED <<run_dirs, ret, cfg_vars, sched, slurm, racers, data_vars, ckpt_vars>>

\* the workers that have exited and that join() has not collected yet
Ready(procs) == {w \in DOMAIN procs : procs[w].pc = "exited" /\ ~procs[w].joined}

\* lines 133-135: one pctx.join(): it waits for exited workers; a non-zero exit status makes it
\* terminate the others and raise, otherwise it reports whether all workers are done
DDPJoin ==
    /\ ddp.pc = "join"
    /\ Ready(ddp.procs) # {}
    /\ LET ready == Ready(ddp.procs)
           failed == {w \in ready : ddp.procs[w].exitcode # {0}}
           collected == [w \in DOMAIN ddp.procs |->
                            IF w \in ready THEN [ddp.procs[w] EXCEPT !.joined = TRUE] ELSE ddp.procs[w]]
           terminated == [w \in DOMAIN ddp.procs |->
                            IF collected[w].pc = "exited" THEN collected[w]
                            ELSE [collected[w] EXCEPT !.pc = "terminated", !.joined = TRUE]]
       IN IF failed # {}
          THEN ddp' = [ddp EXCEPT !.procs = terminated, !.pc = "done", !.result = "raised"]
          ELSE IF \A w \in DOMAIN collected : collected[w].joined
          THEN ddp' = [ddp EXCEPT !.procs = collected, !.pc = "done", !.result = "returned"]
          ELSE ddp' = [ddp EXCEPT !.procs = collected]
    /\ UNCHANGED <<run_dirs, ret, cfg_vars, sched, slurm, racers, data_vars, ckpt_vars>>

(***************************************************************************)
(* MultiIterDataset                                                        *)
(***************************************************************************)
Max(a, b) == IF a > b THEN a ELSE b

\* is items[i] defined for a Python sequence of length n (negative indices count from the end)
index_ok(i, n) == -n <= i /\ i < n

\* the position, counted from 1, of items[i]
index_pos(i, n) == IF i < 0 THEN i + n + 1 ELSE i + 1

\* items[:i]
slice_to(items, i) ==
    LET n == Len(items) IN SubSeq(items, 1, IF i < 0 THEN Max(i + n, 0) ELSE Min(i, n))

\* items[i:]
slice_from(items, i) ==
    LET n == Len(items) IN SubSeq(items, (IF i < 0 THEN Max(i + n, 0) ELSE Min(i, n)) + 1, n)

\* items.pop(i) for an index that is defined: the list afterwards
pop_at(items, i) ==
    LET k == index_pos(i, Len(items)) IN SubSeq(items, 1, k - 1) \o SubSeq(items, k + 1, Len(items))

RECURSIVE cumsum_from(_, _)
\* np.cumsum(rates), continued from the running total acc
cumsum_from(rates, acc) ==
    IF rates = <<>> THEN <<>> ELSE <<acc + Head(rates)>> \o cumsum_from(Tail(rates), acc + Head(rates))

\* line 38: np.concatenate([np.array([0]), np.cumsum(rates)])
initial_rate_cumsum(rates) == <<0>> \o cumsum_from(rates, 0)

RECURSIVE binsearch_right(_, _, _, _)
\* numpy's binary search for side="right" between min_idx and max_idx (counted from 0)
binsearch_right(arr, key, min_idx, max_idx) ==
    IF min_idx >= max_idx THEN min_idx
    ELSE LET mid == min_idx + ((max_idx - min_idx) \div 2) IN
         IF key < arr[mid + 1]
         THEN binsearch_right(arr, key, min_idx, mid)
         ELSE binsearch_right(arr, key, mid + 1, max_idx)

\* np.searchsorted(arr, key, side="right")
searchsorted_right(arr, key) == binsearch_right(arr, key, 0, Len(arr))

\* the whole parts of random.random() * total: random() is in [0, 1), and against whole-number
\* entries a value compares like its whole part
Draws(total) == IF total > 0 THEN 0 .. (total - 1) ELSE total .. 0

\* lines 56-57: lhs = rate_cumsum[:idx], rhs = rate_cumsum[idx + 1:] - rate_cumsum[idx]
drop_rate(rate_cumsum, idx) ==
    LET at == rate_cumsum[index_pos(idx, Len(rate_cumsum))]
        rest == slice_from(rate_cumsum, idx + 1)
    IN slice_to(rate_cumsum, idx) \o [i \in DOMAIN rest |-> rest[i] - at]

\* everything of the model except the dataset being iterated
multi_frame == <<run_dirs, ret, cfg_vars, ckpt_vars, sched, slurm, ddp, racers, tasks, stream, prefetch, os_environ>>

\* MultiIterDataset(datasets, until_all_empty).__iter__(), lines 29-40: child c yields lens[c] items
MultiIter(rates, lens, until_all_empty) ==
    /\ multi.pc = "idle"
    /\ Len(rates) = Len(lens)
    /\ multi' = [pc |-> "iterating", until_all_empty |-> until_all_empty, lens |-> lens,
                 rate_cumsum |-> initial_rate_cumsum(rates),
                 iterators |-> [c \in DOMAIN lens |-> [id |-> c, pos |-> 0]],
                 yielded |-> [c \in DOMAIN lens |-> 0], drawn |-> {}, raised |-> "none"]
    /\ UNCHANGED multi_frame

\* one pass of the loop of __next__, lines 44-57, with the draw val
MultiNext(val) ==
    /\ multi.pc = "iterating"
    /\ val \in Draws(multi.rate_cumsum[Len(multi.rate_cumsum)])
    /\ LET idx == searchsorted_right(multi.rate_cumsum, val) - 1
           n == Len(multi.iterators)
           drawn == {[idx |-> idx, of |-> n]}
       IN IF ~index_ok(idx, n)
          THEN multi' = [multi EXCEPT !.pc = "ended", !.raised = "IndexError", !.drawn = drawn]
          ELSE LET k == index_pos(idx, n)
                   iterator == multi.iterators[k]
               IN IF iterator.pos < multi.lens[iterator.id]
                  THEN multi' = [multi EXCEPT !.iterators[k].pos = @ + 1, !.yielded[iterator.id] = @ + 1,
                                              !.drawn = drawn]
                  ELSE IF ~multi.until_all_empty \/ n = 1
                  THEN multi' = [multi EXCEPT !.pc = "ended", !.raised = "StopIteration", !.drawn = drawn]
                  ELSE multi' = [multi EXCEPT !.iterators = pop_at(@, idx),
                                              !.rate_cumsum = drop_rate(@, idx), !.drawn = drawn]
    /\ UNCHANGED multi_frame

(***************************************************************************)
(* StreamingDataset                                                        *)
(***************************************************************************)
\* get_worker_info() is None in the main process
NoWorker == [id |-> 0, num_workers |-> 0]

\* lines 53-58: range(len(datasets)), or its slice [worker_id :: num_workers] in a worker process
worker_dataset_ids(num_datasets, worker_info) ==
    IF worker_info = NoWorker THEN 0 .. (num_datasets - 1)
    ELSE {i \in 0 .. (num_datasets - 1) : i >= worker_info.id /\ (i - worker_info.id) % worker_info.num_workers = 0}

\* the orders random.shuffle can leave a list of the ids in
Shuffles(ids) == {q \in [1 .. Cardinality(ids) -> ids] : \A i, j \in DOMAIN q : i # j => q[i] # q[j]}

\* swap_reservoir(a, b), lines 73-74; a and b counted from 0
swap_reservoir(reservoir, a, b) ==
    [reservoir EXCEPT ![a + 1] = reservoir[b + 1], ![b + 1] = reservoir[a + 1]]

discard_iterator_kept(iterators, dataset_id) == iterators

\* iterators.pop(dataset_id) when there is one, lines 88-89
discard_iterator(iterators, dataset_id) == [iterators EXCEPT ![dataset_id] = {}]

return_dataset_keeps_iterator(st, reservoir_id) ==
    [st EXCEPT !.reservoir = swap_reservoir(@, reservoir_id, st.reservoir_pointer - 1),
               !.reservoir_pointer = @ - 1]

\* return_dataset(reservoir_id), lines 85-91
return_dataset(st, reservoir_id) ==
    [st EXCEPT !.iterators = discard_iterator(@, st.reservoir[reservoir_id + 1]),
               !.reservoir = swap_reservoir(@, reservoir_id, st.reservoir_pointer - 1),
               !.reservoir_pointer = @ - 1]

\* the k-th item of child dataset d
Sample(d, k) == [child |-> d, k |-> k]

\* everything of the model except the streaming dataset
stream_frame == <<run_dirs, ret, cfg_vars, ckpt_vars, sched, slurm, ddp, racers, tasks, multi, prefetch, os_environ>>

\* StreamingDataset(datasets, max_simultaneous).__iter__() in a process, lines 40-71;
\* child dataset d yields lens[d + 1] items
StreamIter(lens, max_simultaneous, worker_info) ==
    /\ stream.pc = "idle"
    /\ Len(lens) > 0
    /\ LET dataset_ids == worker_dataset_ids(Len(lens), worker_info) IN
       IF dataset_ids = {}
       THEN stream' = [pc |-> "ended", raised |-> "ValueError"]
       ELSE \E reservoir \in Shuffles(dataset_ids) :
              stream' = [pc |-> "next", lens |-> lens, max_simultaneous |-> max_simultaneous,
                         worker_info |-> worker_info, worker_datasets |-> dataset_ids,
                         iterators |-> [d \in dataset_ids |-> {}],
                         reservoir |-> reservoir, reservoir_pointer |-> 0,
                         num_opened |-> 0,
                         returned |-> {}, raised |-> "none"]
    /\ UNCHANGED stream_frame

\* one pass of the loop of fill_reservoir, lines 77-80, with the draw new_iter_id
StreamFill(new_iter_id) ==
    /\ stream.pc = "next"
    /\ stream.reservoir_pointer < Min(stream.max_simultaneous, Len(stream.reservoir))
    /\ new_iter_id \in stream.reservoir_pointer .. (Len(stream.reservoir) - 1)
    /\ stream' = [stream EXCEPT !.reservoir = swap_reservoir(@, new_iter_id, stream.reservoir_pointer),
                                !.reservoir_pointer = @ + 1]
    /\ UNCHANGED stream_frame

\* lines 98-107 once the reservoir is full: a child is drawn, opened if it is not open, and asked
\* for its next item; an exhausted child is returned and the loop goes round again
StreamSample(reservoir_id) ==
    /\ stream.pc = "next"
    /\ ~(stream.reservoir_pointer < Min(stream.max_simultaneous, Len(stream.reservoir)))
    /\ reservoir_id \in 0 .. (stream.reservoir_pointer - 1)
    /\ stream.iterators[stream.reservoir[reservoir_id + 1]] = {} => stream.num_opened < MaxOpens
    /\ LET dataset_id == stream.reservoir[reservoir_id + 1]
           opened == IF stream.iterators[dataset_id] = {}
                     THEN [stream EXCEPT !.iterators[dataset_id] = {0}, !.num_opened = @ + 1]
                     ELSE stream
           pos == CHOOSE k \in opened.iterators[dataset_id] : TRUE
       IN IF pos < stream.lens[dataset_id + 1]
          THEN stream' = [opened EXCEPT !.iterators[dataset_id] = {pos + 1},
                                       !.returned = {[dataset_id |-> dataset_id, sample |-> Sample(dataset_id, pos + 1)]}]
          ELSE stream' = [return_dataset(opened, reservoir_id) EXCEPT !.returned = {}]
    /\ UNCHANGED stream_frame

(***************************************************************************)
(* Global tags in the GLOBAL_MODEL_TAGS environment variable.  A string is *)
(* the sequence of its characters.                                         *)
(***************************************************************************)
\* GlobalTags.key, "GLOBAL_MODEL_TAGS"
GlobalTagsKey == <<"G", "L", "O", "B", "A", "L", "_", "M", "O", "D", "E", "L", "_", "T", "A", "G", "S">>

\* GlobalTags.sep, the default ","
GlobalTagsSep == <<",">>

\* the characters of a tag
TagChars == {"a", "b"}

\* the tags: non-empty strings without the separator
Tags == UNION {[1 .. n -> TagChars] : n \in 1 .. MaxTagLen}

\* ord(c) for the characters that reach a comparison
ord(c) == CASE c = "," -> 44 [] c = "a" -> 97 [] c = "b" -> 98 [] OTHER -> 0

\* a < b for two strings
str_less(a, b) ==
    \/ /\ Len(a) < Len(b)
       /\ \A i \in 1 .. Len(a) : a[i] = b[i]
    \/ \E i \in 1 .. Len(a) :
          /\ i <= Len(b)
          /\ \A j \in 1 .. (i - 1) : a[j] = b[j]
          /\ ord(a[i]) < ord(b[i])

\* sorted(values) for a set of strings
RECURSIVE sorted(_)
sorted(values) ==
    IF values = {} THEN <<>>
    ELSE LET least == CHOOSE v \in values : \A w \in values \ {v} : str_less(v, w)
         IN <<least>> \o sorted(values \ {least})

\* sep.join(parts)
RECURSIVE str_join(_, _)
str_join(sep, parts) ==
    IF parts = <<>> THEN <<>>
    ELSE IF Len(parts) = 1 THEN parts[1]
    ELSE parts[1] \o sep \o str_join(sep, Tail(parts))

\* text.find(sep) counted from 1, 0 when sep does not occur
str_find(text, sep) ==
    LET hits == {i \in 1 .. (Len(text) - Len(sep) + 1) : SubSeq(text, i, i + Len(sep) - 1) = sep}
    IN IF hits = {} THEN 0 ELSE CHOOSE i \in hits : \A j \in hits : i <= j

\* text.split(sep)
RECURSIVE str_split(_, _)
str_split(text, sep) ==
    LET i == str_find(text, sep) IN
    IF i = 0 THEN <<text>>
    ELSE <<SubSeq(text, 1, i - 1)>> \o str_split(SubSeq(text, i + Len(sep), Len(text)), sep)

\* os.environ.get(key, default) for the one variable the model holds
environ_get(env, default) == IF env.value = {} THEN default ELSE CHOOSE v \in env.value : TRUE

\* the environment of a process in which the variable is unset
EnvironUnset == [pc |-> "unset", value |-> {}]

\* the environment the calls act on
CurrentEnviron == IF os_environ.pc = "idle" THEN EnvironUnset ELSE os_environ

\* _StrSetEnvVar.get, line 39
StrSetEnvVar_get(env) ==
    LET parts == str_split(environ_get(env, <<>>), GlobalTagsKey)
    IN {parts[i] : i \in {j \in DOMAIN parts : parts[j] # <<>>}}

\* _StrSetEnvVar.set, line 42: the value of the variable afterwards
StrSetEnvVar_set(values) == str_join(GlobalTagsSep, sorted({v \in values : v # <<>>}))

get_global_tags == StrSetEnvVar_get(CurrentEnviron)

\* everything of the model except the environment
environ_frame == <<run_dirs, ret, cfg_vars, ckpt_vars, sched, slurm, ddp, racers, tasks, multi, stream, prefetch>>

\* set_global_tags(values)
SetGlobalTags(values) ==
    /\ CurrentEnviron.pc \in {"unset", "called"}
    /\ os_environ.pc = "called" => os_environ.calls < MaxCalls
    /\ os_environ' = [pc |-> "called", value |-> {StrSetEnvVar_set(values)},
                      op |-> "set", given |-> values, only_adds |-> FALSE,
                      calls |-> IF os_environ.pc = "called" THEN os_environ.calls + 1 ELSE 1]
    /\ UNCHANGED environ_frame

\* add_global_tag(value), lines 44-45
AddGlobalTag(value) ==
    /\ CurrentEnviron.pc \in {"unset", "called"}
    /\ os_environ.pc = "called" => os_environ.calls < MaxCalls
    /\ os_environ' = [pc |-> "called", value |-> {StrSetEnvVar_set(get_global_tags \cup {value})},
                      op |-> "add",
                      given |-> IF os_environ.pc = "called" THEN os_environ.given \cup {value} ELSE {value},
                      only_adds |-> IF os_environ.pc = "called" THEN os_environ.only_adds ELSE TRUE,
                      calls |-> IF os_environ.pc = "called" THEN os_environ.calls + 1 ELSE 1]
    /\ UNCHANGED environ_frame

(***************************************************************************)
(* Prefetcher and InfinitePrefetcher                                       *)
(***************************************************************************)
\* the batches a dataloader may produce
BatchValues == {"a", "b"}

\* the dataloaders: every sequence of at most MaxBatches batches
Dataloaders == UNION {[1 .. n -> BatchValues] : n \in 0 .. MaxBatches}

\* to_device_func(batch)
to_device(batch) == [device |-> "device", batch |-> batch]

\* next(dataloader_iter) for an iterator that has produced the first pos batches of dataloader
dataloader_next(pos, dataloader) ==
    IF pos < Len(dataloader) THEN [pos |-> pos + 1, value |-> {dataloader[pos + 1]}, raised |-> "none"]
    ELSE [pos |-> pos, value |-> {}, raised |-> "StopIteration"]

\* prefetch(), lines 54-63: the iterator position and next_sample afterwards
prefetch_sample(pos, dataloader) ==
    LET r == dataloader_next(pos, dataloader) IN
    IF r.raised = "StopIteration"
    THEN [pos |-> r.pos, next_sample |-> {}]
    ELSE [pos |-> r.pos, next_sample |-> {to_device(batch) : batch \in r.value}]

\* what the caller of next() sees when a generator body lets the exception exc escape
\* (a StopIteration raised inside a generator is replaced by RuntimeError)
generator_raises(exc) == IF exc = "StopIteration" THEN "RuntimeError" ELSE exc

\* everything of the model except the prefetcher
prefetch_frame == <<run_dirs, ret, cfg_vars, ckpt_vars, sched, slurm, ddp, racers, tasks, multi, stream, os_environ>>

\* Prefetcher(to_device_func, dataloader), lines 44-52, alone or wrapped in an InfinitePrefetcher
\* (lines 141-142); nothing is being iterated yet
PrefetcherNew(dataloader, infinite) ==
    /\ prefetch.pc = "idle"
    /\ prefetch' = [pc |-> "created", dataloader |-> dataloader, infinite |-> infinite,
                    dataloader_iter |-> 0, next_sample |-> {}, yielded |-> <<>>, passes |-> 0,
                    raised |-> "none"]
    /\ UNCHANGED prefetch_frame

\* a for-loop asks for the iterator: Prefetcher.__iter__ builds a generator that has not run yet;
\* an InfinitePrefetcher does so again after each pass of its inner loop (line 146)
PrefetcherIter ==
    /\ prefetch.pc \in {"created", "ended"}
    /\ prefetch.passes < MaxPasses
    /\ prefetch.pc = "ended" => (prefetch.raised = "none" \/ ~prefetch.infinite)
    /\ prefetch' = [prefetch EXCEPT !.pc = "start", !.yielded = <<>>, !.passes = @ + 1, !.raised = "none"]
    /\ UNCHANGED prefetch_frame

\* one next() on the generator, lines 122-137: the first one prefetches, every one hands out
\* next_sample and prefetches again, or finds no sample, resets the dataloader iterator and
\* re-raises StopIteration inside the generator
PrefetcherNext ==
    /\ prefetch.pc \in {"start", "yielded"}
    /\ LET first == IF prefetch.pc = "start"
                    THEN prefetch_sample(prefetch.dataloader_iter, prefetch.dataloader)
                    ELSE [pos |-> prefetch.dataloader_iter, next_sample |-> prefetch.next_sample]
       IN IF first.next_sample = {}
          THEN prefetch' = [prefetch EXCEPT !.pc = "ended", !.dataloader_iter = 0, !.next_sample = {},
                                            !.raised = generator_raises("StopIteration")]
          ELSE LET sample == CHOOSE b \in first.next_sample : TRUE
                   after == prefetch_sample(first.pos, prefetch.dataloader)
               IN prefetch' = [prefetch EXCEPT !.pc = "yielded", !.dataloader_iter = after.pos,
                                               !.next_sample = after.next_sample,
                                               !.yielded = Append(@, sample)]
    /\ UNCHANGED prefetch_frame

(***************************************************************************)
(* slurm_main: the tasks of one job bootstrap and hand the lock over       *)
(***************************************************************************)
\* everything of the model except the tasks of the job and the run directories
job_frame == <<ret, cfg_vars, ckpt_vars, sched, slurm, ddp, racers, multi, stream, prefetch, os_environ>>

\* int(text) for the decimal text of a count or an index
int(text) == CHOOSE n \in 0 .. (MaxNodes * MaxTasksPerNode) : ToString(n) = text

\* the variables Slurm sets for the task local_id of node node_id
SlurmEnviron(num_nodes, tasks_per_node, node_id, local_id) ==
    [SLURM_NNODES |-> ToString(num_nodes), SLURM_NTASKS_PER_NODE |-> ToString(tasks_per_node),
     SLURM_NODEID |-> ToString(node_id), SLURM_LOCALID |-> ToString(local_id)]

\* the tasks srun starts: one per node and local id
TaskIds(num_nodes, tasks_per_node) == (0 .. (num_nodes - 1)) \X (0 .. (tasks_per_node - 1))

slurm_rank_without_stride(node_id, tasks_per_node, local_id) == node_id + local_id

\* line 264: rank = node_id * tasks_per_node + local_id
slurm_rank(node_id, tasks_per_node, local_id) == node_id * tasks_per_node + local_id

\* line 265: world_size = num_nodes * tasks_per_node
slurm_world_size(num_nodes, tasks_per_node) == num_nodes * tasks_per_node

\* a job of the given shape whose tasks have just been started
StartedJob(num_nodes, tasks_per_node, requeued) ==
    [pc |-> "started", num_nodes |-> num_nodes, tasks_per_node |-> tasks_per_node, requeued |-> requeued,
     procs |-> [t \in TaskIds(num_nodes, tasks_per_node) |->
                  [pc |-> "boot", environ |-> SlurmEnviron(num_nodes, tasks_per_node, t[1], t[2]),
                   rank |-> {}, world_size |-> {}]]]

\* the locks of the run directory when a job starts: left by launch, or by the job's earlier run
LocksAtStart(requeued) ==
    [NoLocks EXCEPT ![IF requeued THEN "running" ELSE "scheduled"] = File(PidText(TrainerPid))]

\* lines 260-272: rank and world size from the environment; the task then enters
\* init_process_group, the handshake of all tasks of the job
TaskResolve(t) ==
    /\ tasks.pc = "started"
    /\ tasks.procs[t].pc = "boot"
    /\ LET env == tasks.procs[t].environ
           node_id == int(env.SLURM_NODEID)
           local_id == int(env.SLURM_LOCALID)
           tasks_per_node == int(env.SLURM_NTASKS_PER_NODE)
           num_nodes == int(env.SLURM_NNODES)
           rank == slurm_rank(node_id, tasks_per_node, local_id)
           world_size == slurm_world_size(num_nodes, tasks_per_node)
       IN tasks' = [tasks EXCEPT !.procs[t] =
              [@ EXCEPT !.rank = {rank}, !.world_size = {world_size}, !.pc = "init_process_group"]]
    /\ UNCHANGED <<run_dirs, job_frame>>

\* init_process_group returns in a task once every task of the job has entered it
process_group_ready(procs) == \A u \in DOMAIN procs : procs[u].pc # "boot"

\* lines 273-277: the task leaves the handshake and parses the config; line 277 sends the
\* master to the lock handoff and every other task to train_main
TaskInitProcessGroup(t) ==
    /\ tasks.pc = "started"
    /\ tasks.procs[t].pc = "init_process_group"
    /\ process_group_ready(tasks.procs)
    /\ LET rank == CHOOSE r \in tasks.procs[t].rank : TRUE
       IN tasks' = [tasks EXCEPT !.procs[t].pc = IF is_master(rank) THEN "add_running" ELSE "train"]
    /\ UNCHANGED <<run_dirs, job_frame>>

TaskAddRunning_skipped(t) ==
    /\ tasks.pc = "started"
    /\ tasks.procs[t].pc = "add_running"
    /\ tasks' = [tasks EXCEPT !.procs[t].pc = "remove_scheduled"]
    /\ UNCHANGED <<run_dirs, job_frame>>

\* line 278: trainer.add_lock_file("running", exists_ok=True)
TaskAddRunning(t) ==
    /\ tasks.pc = "started"
    /\ tasks.procs[t].pc = "add_running"
    /\ LET r == add_lock_file(run_dirs[ExpRunId], "running", TRUE, TrainerPid) IN
        /\ run_dirs' = [run_dirs EXCEPT ![ExpRunId] = r.dir]
        /\ tasks' = [tasks EXCEPT !.procs[t].pc = IF r.raised = "none" THEN "remove_scheduled" ELSE "failed"]
    /\ UNCHANGED job_frame

\* line 279: trainer.remove_lock_file("scheduled", missing_ok=True)
TaskRemoveScheduled(t) ==
    /\ tasks.pc = "started"
    /\ tasks.procs[t].pc = "remove_scheduled"
    /\ LET r == remove_lock_file(run_dirs[ExpRunId], "scheduled", TRUE) IN
        /\ run_dirs' = [run_dirs EXCEPT ![ExpRunId] = r.dir]
        /\ tasks' = [tasks EXCEPT !.procs[t].pc = IF r.raised = "none" THEN "train" ELSE "failed"]
    /\ UNCHANGED job_frame

\* line 280: train_main(objs) is entered
TaskTrain(t) ==
    /\ tasks.pc = "started"
    /\ tasks.procs[t].pc = "train"
    /\ tasks' = [tasks EXCEPT !.procs[t].pc = "training"]
    /\ UNCHANGED <<run_dirs, job_frame>>

(***************************************************************************)
(* add_lock_file, statement by statement, in concurrent processes          *)
(***************************************************************************)
\* line 65: (exp_dir / f".lock_{lock_type}").exists()
lock_file_exists(d, lock_type) == d.is_dir /\ d.locks[lock_type].exists

open_lock_file_exclusive(d, lock_type, pid) ==
    IF ~d.is_dir THEN [dir |-> d, raised |-> "FileNotFoundError"]
    ELSE IF d.locks[lock_type].exists THEN [dir |-> d, raised |-> "FileExistsError"]
    ELSE [dir |-> [d EXCEPT !.locks[lock_type] = File(PidText(pid))], raised |-> "none"]

\* lines 69-70: open(lock_file, "w") creates or truncates the file, then the pid is written
open_lock_file(d, lock_type, pid) ==
    IF ~d.is_dir THEN [dir |-> d, raised |-> "FileNotFoundError"]
    ELSE [dir |-> [d EXCEPT !.locks[lock_type] = File(PidText(pid))], raised |-> "none"]

\* lines 65-68: process pid enters add_lock_file and tests whether the lock file exists
LockCheck(pid, lock_type, exists_ok) ==
    /\ racers[pid].pc \in {"idle", "done"}
    /\ racers' = [racers EXCEPT ![pid] =
          IF lock_file_exists(run_dirs[ExpRunId], lock_type)
          THEN [pc |-> "done", lock_type |-> lock_type, exists_ok |-> exists_ok, saw_lock |-> TRUE,
                raised |-> IF ~exists_ok THEN "RuntimeError" ELSE "none"]
          ELSE [pc |-> "open", lock_type |-> lock_type, exists_ok |-> exists_ok, saw_lock |-> FALSE,
                raised |-> "none"]]
    /\ UNCHANGED <<run_dirs, ret, cfg_vars, sched, slurm, ddp, data_vars, ckpt_vars>>

\* lines 69-70: the process that found no lock file writes it
LockWrite(pid) ==
    /\ racers[pid].pc = "open"
    /\ LET r == open_lock_file(run_dirs[ExpRunId], racers[pid].lock_type, pid) IN
        /\ run_dirs' = [run_dirs EXCEPT ![ExpRunId] = r.dir]
        /\ racers' = [racers EXCEPT ![pid].pc = "done", ![pid].raised = r.raised]
    /\ UNCHANGED <<ret, cfg_vars, sched, slurm, ddp, data_vars, ckpt_vars>>

vars == <<run_dirs, ret, config_file, only_save_most_recent, ckpt_dir, ckpt_files, last_ckpt, mem, pc, frame, calls,
         sched, slurm, ddp, racers, tasks, multi, stream, prefetch, os_environ>>

\* no job has started and nothing iterates a dataset or reads the environment
NoData ==
    /\ tasks = NotCalled
    /\ multi = NotCalled
    /\ stream = NotCalled
    /\ prefetch = NotCalled
    /\ os_environ = NotCalled

Init ==
    /\ run_dirs = [n \in RunIds |-> NoDir]
    /\ ret = [op |-> "init"]
    /\ config_file = Absent
    /\ only_save_most_recent = FALSE
    /\ ckpt_dir = FALSE
    /\ ckpt_files = [n \in Steps |-> Absent]
    /\ last_ckpt = Absent
    /\ mem = ObjectsAt(init_state)
    /\ pc = "idle"
    /\ frame = NoFrame
    /\ calls = <<>>
    /\ sched = <<>>
    /\ slurm = NotCalled
    /\ ddp = NotCalled
    /\ racers = [p \in Pids |-> NotCalled]
    /\ NoData

Next ==
    \/ \E n \in RunIds : MakeExpDir(n)
    \/ GetRunId
    \/ \E n \in RunIds, k \in LockTypes, f \in BOOLEAN, p \in Pids : AddLockFile(n, k, f, p)
    \/ \E n \in RunIds, k \in LockTypes, f \in BOOLEAN : RemoveLockFile(n, k, f)

Spec == Init /\ [][Next]_vars

\* how a run directory can be found: missing, or a directory holding any of the lock files
DirStates ==
    {NoDir} \cup {[is_dir |-> TRUE,
                   locks |-> [k \in LockTypes |-> IF k \in ks THEN File(PidText(TrainerPid)) ELSE Absent]] :
                        ks \in SUBSET LockTypes}

ScanIds == 0 .. (MaxScan - 1)

\* the run locator alone, on a base directory left in any state by earlier runs
InitRuns ==
    /\ run_dirs \in [ScanIds -> DirStates]
    /\ ret = [op |-> "init"]
    /\ config_file = Absent
    /\ only_save_most_recent = FALSE
    /\ ckpt_dir = FALSE
    /\ ckpt_files = [n \in Steps |-> Absent]
    /\ last_ckpt = Absent
    /\ mem = ObjectsAt(init_state)
    /\ pc = "idle"
    /\ frame = NoFrame
    /\ calls = <<>>
    /\ sched = <<>>
    /\ slurm = NotCalled
    /\ ddp = NotCalled
    /\ racers = [p \in Pids |-> NotCalled]
    /\ NoData

NextRuns ==
    \/ GetRunId
    \/ \E n \in ScanIds : MakeExpDir(n)
    \/ \E n \in ScanIds, k \in LockTypes : AddLockFile(n, k, TRUE, TrainerPid)
    \/ \E n \in ScanIds, k \in LockTypes : RemoveLockFile(n, k, TRUE)

SpecRuns == InitRuns /\ [][NextRuns]_vars

\* the config store alone: successive launches save their resolved config into the run directory
NextCfg == \E c \in Configs : SaveConfig(c)

SpecCfg == Init /\ [][NextCfg]_vars

\* diff_configs alone, on every pair of configs
InitDiff ==
    /\ run_dirs = [n \in RunIds |-> NoDir]
    /\ ret \in {[op |-> "diff_configs", first |-> a, second |-> b, first_order |-> o, second_order |-> q,
                 forward |-> {}, backward |-> {}] :
                    a \in DiffInputs, b \in DiffInputs, o \in KeyOrders, q \in KeyOrders}
    /\ config_file = Absent
    /\ only_save_most_recent = FALSE
    /\ ckpt_dir = FALSE
    /\ ckpt_files = [n \in Steps |-> Absent]
    /\ last_ckpt = Absent
    /\ mem = ObjectsAt(init_state)
    /\ pc = "idle"
    /\ frame = NoFrame
    /\ calls = <<>>
    /\ sched = <<>>
    /\ slurm = NotCalled
    /\ ddp = NotCalled
    /\ racers = [p \in Pids |-> NotCalled]
    /\ NoData

NextDiff ==
    \/ DiffForward
    \/ DiffBackward

SpecDiff == InitDiff /\ [][NextDiff]_vars

\* the calls of one save_checkpoint or load_checkpoint, step by step
CkptSteps ==
    \/ SaveCheckAlias
    \/ SaveUnlinkTarget
    \/ SaveUnlinkAlias
    \/ SaveOpen
    \/ SaveWrite
    \/ SaveSymlink
    \/ SaveAddLock
    \/ SaveHook
    \/ LoadStep
    \/ LoadReturn
    \/ Resume

\* training, saving and loading on a run directory whose checkpoints/ starts empty; no call is interrupted
NextFresh ==
    \/ \E s \in RunStates : Train(s)
    \/ \E r \in Ranks : SaveBegin(r)
    \/ \E r \in Ranks : SaveSkip(r)
    \/ \E path \in CkptPaths : LoadBegin(path)
    \/ CkptSteps

\* the trainer of the run is configured with either retention setting
InitCkpt ==
    /\ run_dirs = [n \in RunIds |-> NoDir]
    /\ ret = [op |-> "init"]
    /\ config_file = Absent
    /\ only_save_most_recent \in BOOLEAN
    /\ ckpt_dir = FALSE
    /\ ckpt_files = [n \in Steps |-> Absent]
    /\ last_ckpt = Absent
    /\ mem = ObjectsAt(init_state)
    /\ pc = "idle"
    /\ frame = NoFrame
    /\ calls = <<>>
    /\ sched = <<>>
    /\ slurm = NotCalled
    /\ ddp = NotCalled
    /\ racers = [p \in Pids |-> NotCalled]
    /\ NoData

SpecFresh == InitCkpt /\ [][NextFresh]_vars

\* the same, with the process killed at any point of a call and relaunched
NextCkpt ==
    \/ NextFresh
    \/ Kill

SpecCkpt == InitCkpt /\ [][NextCkpt]_vars

\* launches of the Slurm trainer on its run directory, one after another
NextSlurm ==
    \/ \E n \in 0 .. MaxJobs : SlurmLaunch(n)
    \/ \E o \in SbatchOutcomes : SlurmSubmit(o)
    \/ SlurmWait
    \/ SlurmFinish

SpecSlurm == Init /\ [][NextSlurm]_vars

\* one launch of the DDP trainer and the life of its workers
NextDDP ==
    \/ \E n \in 0 .. MaxDevices, port \in Ports : DDPLaunch(n, port)
    \/ \E o \in EntryOutcomes : DDPFuncEnds(o)
    \/ DDPSpawn
    \/ \E w \in 1 .. MaxDevices : WorkerMain(w)
    \/ \E w \in 1 .. MaxDevices, o \in EntryOutcomes : WorkerExit(w, o)
    \/ DDPJoin

SpecDDP == Init /\ [][NextDDP]_vars

\* processes that acquire locks on the run directory at the same time; no lock is released
NextRace ==
    \/ \E n \in RunIds : MakeExpDir(n)
    \/ \E p \in Pids, k \in LockTypes, f \in BOOLEAN : LockCheck(p, k, f)
    \/ \E p \in Pids : LockWrite(p)

SpecRace == Init /\ [][NextRace]_vars

\* a job of any shape starts on the run directory, scheduled by launch or requeued while running
InitJob ==
    \E num_nodes \in 1 .. MaxNodes, tasks_per_node \in 1 .. MaxTasksPerNode, requeued \in BOOLEAN :
        /\ run_dirs = [n \in RunIds |-> IF n = ExpRunId
                                        THEN [is_dir |-> TRUE, locks |-> LocksAtStart(requeued)]
                                        ELSE NoDir]
        /\ tasks = StartedJob(num_nodes, tasks_per_node, requeued)
        /\ ret = [op |-> "init"]
        /\ config_file = File(yaml_dump(LaunchConfig))
        /\ only_save_most_recent = FALSE
        /\ ckpt_dir = FALSE
        /\ ckpt_files = [n \in Steps |-> Absent]
        /\ last_ckpt = Absent
        /\ mem = ObjectsAt(init_state)
        /\ pc = "idle"
        /\ frame = NoFrame
        /\ calls = <<>>
        /\ sched = <<>>
        /\ slurm = NotCalled
        /\ ddp = NotCalled
        /\ racers = [p \in Pids |-> NotCalled]
        /\ multi = NotCalled
        /\ stream = NotCalled
        /\ prefetch = NotCalled
        /\ os_environ = NotCalled

NextJob ==
    \/ \E t \in DOMAIN tasks.procs : TaskResolve(t)
    \/ \E t \in DOMAIN tasks.procs : TaskInitProcessGroup(t)
    \/ \E t \in DOMAIN tasks.procs : TaskAddRunning(t)
    \/ \E t \in DOMAIN tasks.procs : TaskRemoveScheduled(t)
    \/ \E t \in DOMAIN tasks.procs : TaskTrain(t)

SpecJob == InitJob /\ [][NextJob]_vars

\* a MultiIterDataset over any children is iterated to its end
NextMulti ==
    \/ /\ multi.pc = "idle"
       /\ \E n \in 0 .. MaxChildren :
             \E rates \in [1 .. n -> 1 .. MaxRate], lens \in [1 .. n -> 0 .. MaxItems], f \in BOOLEAN :
                 MultiIter(rates, lens, f)
    \/ \E val \in (-(MaxChildren * MaxRate)) .. (MaxChildren * MaxRate) : MultiNext(val)

SpecMulti == Init /\ [][NextMulti]_vars

\* get_worker_info() in the main process and in each worker of a dataloader
WorkerInfos ==
    {NoWorker} \cup {w \in [id : 0 .. (MaxWorkers - 1), num_workers : 1 .. MaxWorkers] : w.id < w.num_workers}

\* one process iterates a StreamingDataset over any children without end
NextStream ==
    \/ /\ stream.pc = "idle"
       /\ \E n \in 1 .. MaxChildren :
             \E lens \in [1 .. n -> 0 .. MaxItems], k \in 1 .. MaxSimultaneous, info \in WorkerInfos :
                 StreamIter(lens, k, info)
    \/ \E i \in 0 .. (MaxChildren - 1) : StreamFill(i)
    \/ \E i \in 0 .. (MaxSimultaneous - 1) : StreamSample(i)

SpecStream == Init /\ [][NextStream]_vars

\* a process sets and adds global tags
NextEnviron ==
    \/ \E values \in {S \in SUBSET Tags : Cardinality(S) <= MaxTags} : SetGlobalTags(values)
    \/ \E value \in Tags : AddGlobalTag(value)

SpecEnviron == Init /\ [][NextEnviron]_vars

\* a prefetcher over a dataloader of any length is iterated, more than once
NextPrefetch ==
    \/ /\ prefetch.pc = "idle"
       /\ \E dataloader \in Dataloaders, infinite \in BOOLEAN : PrefetcherNew(dataloader, infinite)
    \/ PrefetcherIter
    \/ PrefetcherNext

SpecPrefetch == Init /\ [][NextPrefetch]_vars

(***************************************************************************)
(* Run locator and lock manager: properties                                *)
(***************************************************************************)
\* a run id whose directory is missing or holds none of the three lock files
Unclaimed(n) ==
    \/ ~get_exp_dir(run_dirs, n).is_dir
    \/ \A k \in LockTypes : ~get_exp_dir(run_dirs, n).locks[k].exists

\* C1: get_run_id returns the smallest n >= 0 whose run directory is not a
\* directory or holds no lock file of any kind; it never returns the id of a
\* directory that holds a lock.
C1_RunIdIsLeastUnclaimed ==
    ret.op = "get_run_id" =>
        /\ ret.value \in Nat
        /\ Unclaimed(ret.value)
        /\ \A m \in 0 .. (ret.value - 1) : ~Unclaimed(m)
        /\ (\A n \in DOMAIN run_dirs : ~run_dirs[n].is_dir) => ret.value = 0
        /\ (run_dirs[0].is_dir /\ run_dirs[0].locks["running"].exists /\ Unclaimed(1)) => ret.value = 1

\* run_0 holds only a scheduled lock, run_1 only a checkpoint lock, run_2 exists without a
\* lock, and get_run_id has answered 2
C1_Witness ==
    /\ ret.op = "get_run_id"
    /\ ret.value = 2
    /\ run_dirs[0].is_dir
    /\ run_dirs[0].locks["scheduled"].exists
    /\ ~run_dirs[0].locks["running"].exists
    /\ ~run_dirs[0].locks["ckpt"].exists
    /\ run_dirs[1].is_dir
    /\ run_dirs[1].locks["ckpt"].exists
    /\ ~run_dirs[1].locks["running"].exists
    /\ ~run_dirs[1].locks["scheduled"].exists
    /\ run_dirs[2].is_dir
    /\ \A k \in LockTypes : ~run_dirs[2].locks[k].exists

\* C2: add_lock_file with exists_ok false on a directory that holds the lock
\* raises and changes no lock file; on a directory without that lock it
\* creates it with the caller's pid as content, has_lock_file is then true
\* and the other kinds are as before.
C2_AddLockFile ==
    [][\A n \in RunIds, k \in LockTypes, f \in BOOLEAN, p \in Pids :
          AddLockFile(n, k, f, p) =>
              /\ (run_dirs[n].is_dir /\ run_dirs[n].locks[k].exists /\ ~f) =>
                    /\ ret'.raised = "RuntimeError"
                    /\ run_dirs' = run_dirs
              /\ (run_dirs[n].is_dir /\ ~run_dirs[n].locks[k].exists) =>
                    /\ ret'.raised = "none"
                    /\ run_dirs'[n].locks[k] = File(PidText(p))
                    /\ has_lock_file(run_dirs'[n], k)
                    /\ \A j \in LockTypes \ {k} : run_dirs'[n].locks[j] = run_dirs[n].locks[j]
                    /\ \A m \in RunIds \ {n} : run_dirs'[m] = run_dirs[m]
       ]_vars

\* a second acquire of a held lock has just failed, and a lock written by each process is on disk
C2_Witness ==
    /\ ret.op = "add_lock_file"
    /\ ret.raised = "RuntimeError"
    /\ \A p \in Pids : \E n \in RunIds, k \in LockTypes : run_dirs[n].locks[k] = File(PidText(p))

\* C3: remove_lock_file with missing_ok false on a directory without the lock
\* raises and changes no lock file; with the lock present it removes exactly
\* that lock file and returns true; it returns true iff it removed a file.
C3_RemoveLockFile ==
    [][\A n \in RunIds, k \in LockTypes, f \in BOOLEAN :
          RemoveLockFile(n, k, f) =>
              LET held == run_dirs[n].is_dir /\ run_dirs[n].locks[k].exists
              IN  /\ (~held /\ ~f) =>
                        /\ ret'.raised = "RuntimeError"
                        /\ run_dirs' = run_dirs
                  /\ held =>
                        /\ ret'.raised = "none"
                        /\ ret'.value = TRUE
                        /\ run_dirs'[n].locks[k] = Absent
                        /\ \A j \in LockTypes \ {k} : run_dirs'[n].locks[j] = run_dirs[n].locks[j]
                        /\ \A m \in RunIds \ {n} : run_dirs'[m] = run_dirs[m]
                  /\ ret'.raised = "none" => (ret'.value <=> run_dirs' # run_dirs)
       ]_vars

\* a release has just removed a lock and left another one in place
C3_Witness ==
    /\ ret.op = "remove_lock_file"
    /\ ret.raised = "none"
    /\ ret.value = TRUE
    /\ \E n \in RunIds, j \in LockTypes : run_dirs[n].locks[j].exists

\* add_lock_file with exists_ok on a held lock, and remove_lock_file with missing_ok on an
\* absent one, raise nothing and leave every lock file of every run directory as it was
TolerantNoOps(add_value, remove_value) ==
       /\ \A n \in RunIds, k \in LockTypes, p \in Pids :
             (AddLockFile(n, k, TRUE, p) /\ run_dirs[n].is_dir /\ run_dirs[n].locks[k].exists) =>
                 /\ ret'.raised = "none"
                 /\ run_dirs' = run_dirs
                 /\ ret'.returned = add_value
       /\ \A n \in RunIds, k \in LockTypes :
             (RemoveLockFile(n, k, TRUE) /\ ~(run_dirs[n].is_dir /\ run_dirs[n].locks[k].exists)) =>
                 /\ ret'.raised = "none"
                 /\ run_dirs' = run_dirs
                 /\ ret'.value = remove_value

\* C18, as stated: with the tolerant flags set, acquiring a held lock and
\* releasing an absent one are no-ops that raise nothing, change no lock
\* file, and each return a success indicator (true).
C18_TolerantReturnSuccess == [][TolerantNoOps({TRUE}, TRUE)]_vars

\* C18, amended: with the tolerant flags set, acquiring a held lock and
\* releasing an absent one are no-ops that raise nothing and change no lock
\* file; add_lock_file returns nothing and remove_lock_file returns false,
\* the report that no removal occurred.
C18_TolerantNoOps == [][TolerantNoOps({}, FALSE)]_vars

\* a tolerant release of an absent lock has just returned false while another lock stays in place
C18_Witness ==
    /\ ret.op = "remove_lock_file"
    /\ ret.raised = "none"
    /\ ret.value = FALSE
    /\ \E n \in RunIds, j \in LockTypes : run_dirs[n].locks[j].exists

(***************************************************************************)
(* Config store: properties                                                *)
(***************************************************************************)
\* C4: after save_config(dir, cfg) returns, the config persisted at
\* dir/config.yaml equals cfg, whatever the file held before (absent, equal,
\* or different in any key, scalar, nested mapping or sequence element).
C4_PersistedEqualsSaved ==
    ret.op = "save_config" =>
        /\ config_file.exists
        /\ yaml_load(config_file.content) = ret.raw_config

\* the entries of a list of diff lines
Lines(keys) == {keys[i] : i \in DOMAIN keys}

\* C16: when save_config diffs the new config against the stored one, a key
\* that only one of the two mappings has is reported by its dotted path from
\* the root (b, or a.x below the key a), in the list of the side that has
\* it, and no reported path carries an extra prefix.
C16_OneSidedKeysByPath ==
    (ret.op = "save_config" /\ ret.loaded # {}) =>
        LET new == ret.raw_config
            old == CHOOSE c \in ret.loaded : TRUE
        IN
        /\ \A k \in DOMAIN new.d \ DOMAIN old.d : <<k>> \in Lines(ret.added_keys)
        /\ \A k \in DOMAIN old.d \ DOMAIN new.d : <<k>> \in Lines(ret.deleted_keys)
        /\ \A k \in DOMAIN new.d \cap DOMAIN old.d :
              (new.d[k].t = "dict" /\ old.d[k].t = "dict") =>
                  /\ \A x \in DOMAIN new.d[k].d \ DOMAIN old.d[k].d : <<k, ".", x>> \in Lines(ret.added_keys)
                  /\ \A x \in DOMAIN old.d[k].d \ DOMAIN new.d[k].d : <<k, ".", x>> \in Lines(ret.deleted_keys)
        /\ \A line \in Lines(ret.added_keys) \cup Lines(ret.deleted_keys) : Head(line) # "None"

\* C17: for all configs A and B, if diff_configs(A, B) returns (x, y) then
\* diff_configs(B, A) returns exactly (y, x), and diff_configs(A, A) returns
\* two empty lists.
C17_DiffSymmetric ==
    (ret.op = "diff_configs" /\ ret.forward # {} /\ ret.backward # {}) =>
        \A f \in ret.forward, b \in ret.backward :
            /\ b.first = f.second
            /\ b.second = f.first
            /\ (ret.first = ret.second) => (f = NoDiff)

\* C25: for two sequence nodes diff_configs reports every index below the
\* shorter length at which the two elements differ, scalars and nested trees
\* alike, and each extra trailing element of the longer sequence on the
\* longer side only; two sequences of equal length have an empty diff only
\* if they are equal element by element.
C25_SequenceDiff ==
    (ret.op = "diff_configs" /\ ret.forward # {} /\ ret.first.t = "list" /\ ret.second.t = "list") =>
        \A f \in ret.forward :
            LET a == ret.first.l
                b == ret.second.l
                n == Min(Len(a), Len(b))
                same == \A i \in 1 .. n : a[i] = b[i]
            IN
            /\ \A i \in 1 .. n :
                  a[i] # b[i] => \E line \in Lines(f.first) \cup Lines(f.second) : Head(line) = ToString(i - 1)
            /\ (same /\ Len(a) > Len(b)) => (Len(f.first) = Len(a) - Len(b) /\ f.second = <<>>)
            /\ (same /\ Len(b) > Len(a)) => (Len(f.second) = Len(b) - Len(a) /\ f.first = <<>>)
            /\ (Len(a) = Len(b) /\ f = NoDiff) => a = b

(***************************************************************************)
(* Checkpoint manager: properties                                          *)
(***************************************************************************)
\* save_checkpoint has returned in the primary worker and nothing has run since;
\* the run state it was given is still the process's run state
SaveReturned == pc = "idle" /\ ret.op = "save_checkpoint" /\ ret.entered

\* ckpt.pt is a symlink to ckpt.<n>.pt and that file holds a complete bundle with run state s
AliasResolvesTo(n, s) ==
    /\ last_ckpt.exists
    /\ last_ckpt.target = n
    /\ ckpt_files[n].exists
    /\ ckpt_files[n].content.complete
    /\ ckpt_files[n].content.obj.state = s

\* C5: whenever save_checkpoint has returned in the primary worker, ckpt.pt
\* resolves to the checkpoint file that call wrote, whatever checkpoints/
\* held when the call began (no alias, a live alias, an alias whose target
\* is gone).
C5_AliasIsLatest ==
    SaveReturned => AliasResolvesTo(mem.state.num_steps, mem.state)

\* C6: right after save_checkpoint for run state s, load_checkpoint on ckpt.pt
\* and on ckpt.<num_steps>.pt both return a run state equal to s in every
\* counter and in the phase.
C6_SaveLoadRoundTrip ==
    SaveReturned =>
        \A path \in {get_ckpt_path(NoState), get_ckpt_path(mem.state)} :
            LET r == load_checkpoint_result(ckpt_files, last_ckpt, path) IN
            /\ r.raised = "none"
            /\ r.value.num_epochs = mem.state.num_epochs
            /\ r.value.num_steps = mem.state.num_steps
            /\ r.value.num_samples = mem.state.num_samples
            /\ r.value.num_valid_steps = mem.state.num_valid_steps
            /\ r.value.num_test_steps = mem.state.num_test_steps
            /\ phase(r.value) = phase(mem.state)

\* C7: with only_save_most_recent set, on a run directory whose checkpoints/
\* started empty, after the second (and any later) save_checkpoint exactly
\* one checkpoint data file exists and ckpt.pt resolves to the file the last
\* call wrote.
C7_OnlyMostRecentKept ==
    (only_save_most_recent /\ SaveReturned) =>
        /\ Cardinality({n \in Steps : ckpt_files[n].exists}) = 1
        /\ AliasResolvesTo(mem.state.num_steps, mem.state)

\* a save has returned that found and deleted the checkpoint of an earlier save at another step
C7_Witness ==
    /\ only_save_most_recent
    /\ SaveReturned
    /\ ret.existed
    /\ ret.base_ckpt # {}
    /\ ret.base_ckpt # {mem.state.num_steps}

\* C8: inside save_checkpoint the previous alias and the previous checkpoint
\* file are left alone until the new bundle has been written in full.
C8_BundleWrittenBeforeRemoval ==
    [][(frame.op = "save" /\ pc \in {"s_check", "s_rm_target", "s_rm_alias", "s_save", "s_write"}) =>
          /\ last_ckpt' = last_ckpt
          /\ \A n \in Steps \ {frame.ckpt_path.step} : ckpt_files'[n] = ckpt_files[n]
      ]_vars

\* the calls the claim expects of a load, in its order
ExpectedLoadCalls ==
    <<[fn |-> "task.on_after_load_checkpoint"], [fn |-> "model.load_state_dict"],
      [fn |-> "task.load_state_dict"], [fn |-> "optim.load_state_dict"],
      [fn |-> "lr_sched.load_state_dict"], [fn |-> "trainer.load_state_dict"]>>

\* C9: load_checkpoint calls the after-load hook before it restores anything,
\* then restores model, task, optim, lr_sched and trainer in that order from
\* the bundle and returns the stored run state; when torch.load fails the
\* error reaches the caller with no hook called and no component changed.
C9_LoadOrder ==
    [][/\ (pc' = "l_steps") =>
              /\ Len(calls') <= Len(ExpectedLoadCalls)
              /\ calls' = SubSeq(ExpectedLoadCalls, 1, Len(calls'))
       /\ (pc = "l_steps" /\ pc' = "l_steps") =>
              /\ \A c \in {"model", "task", "optim", "lr_sched"} :
                    /\ mem'[c] # mem[c] =>
                          /\ Len(calls) >= 1
                          /\ calls[1].fn = "task.on_after_load_checkpoint"
                          /\ calls'[Len(calls')].fn \in
                                IF c \in {"optim", "lr_sched"}
                                THEN {"optim.load_state_dict", "lr_sched.load_state_dict"}
                                ELSE {CHOOSE fn \in {"model.load_state_dict", "task.load_state_dict"} :
                                         CallParts(fn)[1] = c}
                    /\ mem'[c] \in {mem[c], frame.ckpt[c]}
                    /\ (calls' # calls /\ CallParts(calls'[Len(calls')].fn) = <<c, ".load_state_dict">>) =>
                          mem'[c] = frame.ckpt[c]
              /\ mem'.optim = mem'.lr_sched
              /\ mem'.state = mem.state
       /\ LoadReturn =>
              LET r == torch_load(file_at(ckpt_files, last_ckpt, frame.ckpt_path)) IN
              /\ r.raised = "none"
              /\ ret'.raised = "none"
              /\ calls' = ExpectedLoadCalls
              /\ ret'.value = r.ckpt.state
              /\ \A c \in {"model", "task", "optim", "lr_sched"} : mem'[c] = r.ckpt[c]
       /\ \A path \in CkptPaths :
              (LoadBegin(path) /\ torch_load(file_at(ckpt_files, last_ckpt, path)).raised # "none") =>
                    /\ ret'.op = "load_checkpoint"
                    /\ ret'.raised = torch_load(file_at(ckpt_files, last_ckpt, path)).raised
                    /\ calls' = <<>>
                    /\ mem' = mem
                    /\ pc' = "idle"
      ]_vars

\* a load has returned after replacing the state of objects trained to a different step
C9_Witness ==
    /\ pc = "l_done"
    /\ ret.op = "load_checkpoint"
    /\ ret.raised = "none"
    /\ calls = ExpectedLoadCalls
    /\ mem.model = ret.value.num_steps
    /\ mem.state.num_steps # ret.value.num_steps

\* C10: save_checkpoint in a process that is not the primary worker changes
\* nothing in the run directory and calls no hook; whoever is inside the body
\* of save_checkpoint is the primary worker, so at most one process writes
\* the bundle and the alias.
C10_OnlyPrimaryWrites ==
    [][/\ (ret'.op = "save_checkpoint" /\ ret'.rank # MasterRank) =>
              /\ ~ret'.entered
              /\ (ret' # ret => UNCHANGED <<run_dirs, ckpt_dir, ckpt_files, last_ckpt, calls>>)
       /\ (frame'.op = "save") => frame'.rank = MasterRank
       /\ (ckpt_files' # ckpt_files \/ last_ckpt' # last_ckpt \/ run_dirs' # run_dirs) =>
              (frame.op = "save" \/ frame'.op = "save") /\ is_master(MasterRank)
      ]_vars

\* a worker rank's save_checkpoint has returned while the primary is in the middle of writing the bundle
C10_Witness ==
    /\ ret.op = "save_checkpoint"
    /\ ret.rank # MasterRank
    /\ pc = "s_write"
    /\ ckpt_files[frame.ckpt_path.step] = File(Truncated)

(***************************************************************************)
(* Slurm launcher: properties                                              *)
(***************************************************************************)
\* C11: SlurmTrainer.launch on a run directory that holds a scheduled lock
\* submits no job and fails; on a run directory without it, a launch whose
\* submissions all succeed ends with the scheduled lock present.
C11_NoDoubleSubmission ==
    [][/\ (slurm.pc \in {"submit", "wait"} /\ has_lock_file(run_dirs[ExpRunId], "scheduled")) =>
              /\ sched' = sched
              /\ slurm'.pc = "done" => slurm'.raised # "none"
       /\ (slurm.pc \in {"submit", "wait"} /\ slurm'.pc = "done" /\ slurm'.raised = "none") =>
              has_lock_file(run_dirs'[ExpRunId], "scheduled")
      ]_vars

\* the number of lines of the scheduler's output that announce a job
JobLines(log_line, max_id) ==
    Cardinality({k \in DOMAIN log_line : \E id \in 1 .. max_id : log_line[k] = SubmittedLine(id)})

\* C14: launch submits num_jobs jobs one after another, each after the first
\* depending on the job the scheduler accepted just before; when a
\* submission's output has not exactly one job id launch ends there with an
\* error: nothing more is submitted and no scheduled lock is created.
C14_ChainedSubmissions ==
    [][/\ (sched' # sched) =>
              /\ slurm.pc = "submit" /\ slurm.i < slurm.num_jobs
              /\ slurm'.pc = "wait"
              /\ Len(sched') = Len(sched) + 1
              /\ SubSeq(sched', 1, Len(sched)) = sched
              /\ sched'[Len(sched')].command.dependency =
                    (IF slurm.i = 0 THEN {} ELSE {sched[Len(sched)].id})
       /\ (slurm.pc = "submit" /\ slurm.i < slurm.num_jobs /\ slurm' # slurm) =>
              /\ slurm'.pc = "wait"
              /\ slurm'.i = slurm.i
              /\ run_dirs' = run_dirs
       /\ (slurm.pc = "wait" /\ slurm' # slurm) =>
              /\ sched' = sched
              /\ IF JobLines(slurm'.log_line, Len(sched)) = 1
                 THEN slurm'.pc = "submit" /\ slurm'.i = slurm.i + 1
                 ELSE /\ slurm'.pc = "done"
                      /\ slurm'.raised = "AssertionError"
                      /\ run_dirs' = run_dirs
       /\ (slurm.pc = "submit" /\ slurm'.pc = "done" /\ slurm'.raised # "AssertionError") =>
              slurm.i = slurm.num_jobs
       /\ (slurm.pc = "done" /\ slurm.raised = "AssertionError") =>
              /\ sched' = sched
              /\ run_dirs'[ExpRunId].locks = run_dirs[ExpRunId].locks
      ]_vars

\* a launch has aborted on its second submission, which depended on the first job
C14_Witness ==
    /\ slurm.pc = "done"
    /\ slurm.raised = "AssertionError"
    /\ slurm.all_run_ids = <<1>>
    /\ Len(sched) = 2
    /\ sched[2].command.dependency = {1}
    /\ ~has_lock_file(run_dirs[ExpRunId], "scheduled")

(***************************************************************************)
(* DDP launcher: properties                                                *)
(***************************************************************************)
\* C12: with n >= 2 devices launch starts exactly n workers; for every i in
\* 0 .. n-1 exactly one worker holds rank i, with world_size n, the master
\* address and port of the launch and CUDA_VISIBLE_DEVICES = i, and that is
\* what it runs process_main with.
C12_OneWorkerPerRank ==
    (ddp.pc # "idle" /\ ddp.device_count >= 2) =>
        /\ Len(ddp.procs) <= ddp.device_count
        /\ ddp.pc \in {"join", "done"} => Len(ddp.procs) = ddp.device_count
        /\ \A i \in 0 .. (Len(ddp.procs) - 1) :
              Cardinality({w \in DOMAIN ddp.procs : ddp.procs[w].cfg.rank = i}) = 1
        /\ \A w \in DOMAIN ddp.procs :
              LET proc == ddp.procs[w] IN
              /\ proc.cfg.rank \in 0 .. (ddp.device_count - 1)
              /\ proc.cfg.world_size = ddp.device_count
              /\ proc.cfg.master_addr = "localhost"
              /\ proc.cfg.master_port = ddp.procs[1].cfg.master_port
              /\ proc.environ.CUDA_VISIBLE_DEVICES = {ToString(proc.cfg.rank)}
              /\ proc.called # <<>> =>
                    /\ Len(proc.called) = 1
                    /\ proc.called[1].rank = proc.cfg.rank
                    /\ proc.called[1].world_size = ddp.device_count
                    /\ proc.called[1].master_addr = proc.cfg.master_addr
                    /\ proc.called[1].master_port = proc.cfg.master_port

\* every worker of a launch on two or more devices has entered process_main, and the parent,
\* whose own config object and environment now carry the last rank, has returned
C12_Witness ==
    /\ ddp.pc = "done"
    /\ ddp.device_count >= 2
    /\ ddp.result = "returned"
    /\ \A w \in DOMAIN ddp.procs : ddp.procs[w].called # <<>>
    /\ ddp.cfg.rank = ddp.device_count - 1
    /\ ddp.procs[1].cfg.rank = 0

C20_DegenerateLaunch ==
    (ddp.pc # "idle" /\ ddp.device_count < 2) =>
        /\ ddp.procs = <<>>
        /\ ddp.warnings = <<"Multi-process DDPTrainer expects more than one device">>
        /\ Len(ddp.called) = 1
        /\ ddp.called[1].rank = 0
        /\ ddp.pc \in {"func", "done"}
        /\ (ddp.pc = "done") <=> (ddp.outcome # "none")
        /\ (ddp.pc = "done" /\ ddp.outcome = "returns") => ddp.result = "returned"

\* a launch on a single device has run the entry point in place and returned
C20_Witness ==
    /\ ddp.pc = "done"
    /\ ddp.device_count = 1
    /\ ddp.result = "returned"
    /\ ddp.procs = <<>>

\* every call of process_main made so far, in the calling process or in a worker
EntryCalls ==
    IF ddp.pc = "idle" THEN {}
    ELSE {ddp.called[i] : i \in DOMAIN ddp.called}
         \cup UNION {{ddp.procs[w].called[i] : i \in DOMAIN ddp.procs[w].called} : w \in DOMAIN ddp.procs}

\* C28: every call of process_main made by DDPTrainer.launch, for every
\* device count >= 0, in a spawned worker or in the calling process,
\* receives world_size >= 1 and a rank with 0 <= rank < world_size.
C28_RankWithinWorld ==
    \A call \in EntryCalls :
        /\ call.world_size >= 1
        /\ 0 <= call.rank
        /\ call.rank < call.world_size

\* C26: with only_save_most_recent unset, save_checkpoint never deletes a
\* checkpoint file and never rewrites the file of another step: every file
\* written by an earlier save is still there after any number of saves, and
\* a returned save leaves its own file in place with the alias pointing at it.
C26_HistoryKept ==
    /\ [](( ~only_save_most_recent /\ SaveReturned) =>
              AliasResolvesTo(mem.state.num_steps, mem.state))
    /\ [][~only_save_most_recent =>
             \A n \in Steps :
                 /\ ckpt_files[n].exists => ckpt_files'[n].exists
                 /\ ckpt_files'[n] # ckpt_files[n] =>
                        (pc \in {"s_save", "s_write"} /\ frame.ckpt_path.step = n)]_vars

\* without the retention flag, saves at both step numbers have returned: both files hold complete
\* bundles and the alias points at the one written last, the earlier alias having been replaced
C26_Witness ==
    /\ ~only_save_most_recent
    /\ SaveReturned
    /\ ret.existed
    /\ \A n \in Steps : ckpt_files[n].exists /\ ckpt_files[n].content.complete
    /\ last_ckpt.exists
    /\ last_ckpt.target = mem.state.num_steps

\* C19: when symlink_to fails in save_checkpoint because ckpt.pt is already
\* there, the call still returns normally: the bundle file at the
\* step-qualified path exists in full, the ckpt lock is present and the
\* after-save hook has been called once with the step-qualified path.
C19_AliasFailureTolerated ==
    (SaveReturned /\ ret.link_failed) =>
        /\ ckpt_files[mem.state.num_steps].exists
        /\ ckpt_files[mem.state.num_steps].content.complete
        /\ ckpt_files[mem.state.num_steps].content.obj.state = mem.state
        /\ has_lock_file(run_dirs[ExpRunId], "ckpt")
        /\ calls = <<[fn |-> "task.on_after_save_checkpoint", ckpt_path |-> get_ckpt_path(mem.state)]>>

\* a save has returned whose symlink_to raised FileExistsError, leaving ckpt.pt pointing elsewhere
C19_Witness ==
    /\ SaveReturned
    /\ ret.link_failed
    /\ last_ckpt.exists
    /\ last_ckpt.target # mem.state.num_steps

(***************************************************************************)
(* Concurrent lock acquisition: properties                                 *)
(***************************************************************************)
\* C15: acquisition is not mutually exclusive: on a run directory that
\* exists, a process that found no lock file at its existence check returns
\* from add_lock_file without an error whatever another process did since,
\* so two processes that both checked before either wrote both return
\* believing they hold the lock; the only error of a process that found no
\* lock is that of a missing run directory.
C15_AcquireNotExclusive ==
    /\ [](\A p \in Pids :
            (racers[p].pc = "done" /\ ~racers[p].saw_lock) =>
                /\ racers[p].raised \in {"none", "FileNotFoundError"}
                /\ racers[p].raised = "none" => run_dirs[ExpRunId].locks[racers[p].lock_type].exists)
    /\ [][\A p \in Pids :
            (racers[p].pc = "open" /\ racers'[p].pc = "done" /\ run_dirs[ExpRunId].is_dir) =>
                /\ ~racers'[p].saw_lock
                /\ racers'[p].raised = "none"
                /\ run_dirs'[ExpRunId].locks[racers[p].lock_type] = File(PidText(p))]_vars

\* both processes called add_lock_file(dir, kind, exists_ok=False) for the same kind, neither saw
\* a lock, both returned without error, and the file names only one of them
C15_Witness ==
    /\ \A p \in Pids :
          /\ racers[p].pc = "done"
          /\ ~racers[p].exists_ok
          /\ ~racers[p].saw_lock
          /\ racers[p].raised = "none"
    /\ \A p, q \in Pids : racers[p].lock_type = racers[q].lock_type
    /\ \E p \in Pids : run_dirs[ExpRunId].locks[racers[p].lock_type] # File(PidText(p))

(***************************************************************************)
(* slurm_main: properties                                                  *)
(***************************************************************************)
\* the tasks that have resolved their rank
Resolved == {t \in DOMAIN tasks.procs : tasks.procs[t].pc # "boot"}

RankOf(t) == CHOOSE r \in tasks.procs[t].rank : TRUE

\* C21: in slurm_main world_size = SLURM_NNODES * SLURM_NTASKS_PER_NODE and
\* rank = SLURM_NODEID * SLURM_NTASKS_PER_NODE + SLURM_LOCALID; the ranks of
\* distinct tasks are distinct, lie in [0, world_size), cover it once all
\* tasks have resolved, and exactly one task has rank 0.
C21_SlurmRanks ==
    /\ \A t \in Resolved :
          /\ tasks.procs[t].world_size = {tasks.num_nodes * tasks.tasks_per_node}
          /\ tasks.procs[t].rank = {t[1] * tasks.tasks_per_node + t[2]}
          /\ RankOf(t) \in 0 .. (tasks.num_nodes * tasks.tasks_per_node - 1)
    /\ \A t, u \in Resolved : t # u => RankOf(t) # RankOf(u)
    /\ Resolved = DOMAIN tasks.procs =>
          /\ {RankOf(t) : t \in Resolved} = 0 .. (tasks.num_nodes * tasks.tasks_per_node - 1)
          /\ Cardinality({t \in Resolved : RankOf(t) = 0}) = 1

\* every task of a job of two nodes with two tasks each has resolved its rank
C21_Witness ==
    /\ tasks.pc = "started"
    /\ tasks.num_nodes = 2
    /\ tasks.tasks_per_node = 2
    /\ Resolved = DOMAIN tasks.procs

\* the task that is_master() singles out, once it has resolved its rank
Masters == {t \in Resolved : is_master(RankOf(t))}

\* C27: in the handoff of slurm_main only the master rank touches lock
\* files, and it adds the running lock before it removes the scheduled one:
\* from the start of the job until training starts the run directory always
\* holds a lock and get_run_id never returns its id; once the master is past
\* the handoff the running lock is present and the scheduled lock absent,
\* for a job scheduled by launch and for a requeued job alike.
C27_LockHandoff ==
    /\ [](/\ has_lock_file(run_dirs[ExpRunId], None)
          /\ get_run_id(run_dirs) # ExpRunId
          /\ \A t \in DOMAIN tasks.procs :
                /\ tasks.procs[t].pc # "failed"
                /\ tasks.procs[t].pc \in {"add_running", "remove_scheduled"} => t \in Masters
          /\ \A t \in Masters :
                tasks.procs[t].pc \in {"train", "training"} =>
                    /\ has_lock_file(run_dirs[ExpRunId], "running")
                    /\ ~has_lock_file(run_dirs[ExpRunId], "scheduled"))
    /\ [][run_dirs' # run_dirs =>
             \E t \in Masters : tasks'.procs[t].pc # tasks.procs[t].pc]_vars

\* the master of a job scheduled by launch has handed the lock over and trains while another
\* task has not left the handshake yet
C27_Witness ==
    /\ tasks.pc = "started"
    /\ ~tasks.requeued
    /\ \E t \in Masters : tasks.procs[t].pc = "training"
    /\ \E t \in DOMAIN tasks.procs : tasks.procs[t].pc = "init_process_group"
    /\ run_dirs[ExpRunId].locks["running"].exists
    /\ ~run_dirs[ExpRunId].locks["scheduled"].exists

(***************************************************************************)
(* Datasets: properties                                                    *)
(***************************************************************************)
\* C22: with until_all_empty set, iterating a MultiIterDataset ends only
\* with StopIteration and only after every item of every child has been
\* yielded, and no draw selects an index outside the list of remaining
\* child iterators, whatever the children, rates and draws.
C22_MultiYieldsAll ==
    (multi.pc # "idle" /\ multi.until_all_empty) =>
        /\ multi.raised \in {"none", "StopIteration"}
        /\ multi.raised = "StopIteration" => \A c \in DOMAIN multi.lens : multi.yielded[c] = multi.lens[c]
        /\ \A c \in DOMAIN multi.lens : multi.yielded[c] <= multi.lens[c]
        /\ \A d \in multi.drawn : 0 <= d.idx /\ d.idx < d.of

\* the child datasets with an open iterator
OpenIterators == {d \in DOMAIN stream.iterators : stream.iterators[d] # {}}

\* reservoir[0 : reservoir_pointer] of a dataset state
ActiveRegion(st) == {st.reservoir[i] : i \in 1 .. st.reservoir_pointer}

\* C23: __next__ of a StreamingDataset never signals the end of iteration;
\* an exhausted child that is selected is returned to the reservoir with
\* its iterator discarded, and a child without an iterator that is selected
\* starts again from its first item; every returned pair holds a sample of
\* the child with that id, which belongs to the calling worker's share.
C23_StreamsForever ==
    /\ [](stream.pc = "next" =>
            /\ stream.raised = "none"
            /\ \A r \in stream.returned :
                  /\ r.sample.child = r.dataset_id
                  /\ r.sample.k \in 1 .. stream.lens[r.dataset_id + 1]
                  /\ r.dataset_id \in 0 .. (Len(stream.lens) - 1)
                  /\ stream.worker_info # NoWorker =>
                        r.dataset_id % stream.worker_info.num_workers = stream.worker_info.id)
    /\ [][(stream.pc = "next" /\ stream'.pc = "next") =>
            /\ \A d \in DOMAIN stream.iterators :
                  /\ (stream.iterators[d] = {} /\ stream'.iterators[d] # {}) =>
                        stream'.returned = {[dataset_id |-> d, sample |-> Sample(d, 1)]}
                  /\ (stream.iterators[d] # {} /\ stream'.iterators[d] = {}) =>
                        (stream.iterators[d] = {stream.lens[d + 1]} /\ d \notin ActiveRegion(stream'))
            /\ stream'.reservoir_pointer < stream.reservoir_pointer =>
                  /\ stream'.returned = {}
                  /\ stream'.iterators[stream'.reservoir[stream'.reservoir_pointer + 1]] = {}]_vars

\* the only child of a worker was exhausted and returned, has been opened a second time and has
\* just yielded its first item again
C23_Witness ==
    /\ stream.pc = "next"
    /\ stream.worker_info # NoWorker
    /\ Cardinality(stream.worker_datasets) = 1
    /\ stream.num_opened = 2
    /\ \E r \in stream.returned :
          /\ r.sample = Sample(r.dataset_id, 1)
          /\ stream.iterators[r.dataset_id] = {1}

\* C24: in every state reached by calls of StreamingDataset.__next__ at most
\* max_simultaneous children have an open iterator, the reservoir is a
\* permutation of the worker's dataset ids, 0 <= reservoir_pointer <=
\* min(max_simultaneous, number of worker datasets), and every open
\* iterator's dataset lies in reservoir[0 : reservoir_pointer].
C24_ReservoirInvariant ==
    stream.pc = "next" =>
        /\ Cardinality(OpenIterators) <= stream.max_simultaneous
        /\ Len(stream.reservoir) = Cardinality(stream.worker_datasets)
        /\ {stream.reservoir[i] : i \in DOMAIN stream.reservoir} = stream.worker_datasets
        /\ 0 <= stream.reservoir_pointer
        /\ stream.reservoir_pointer <= Min(stream.max_simultaneous, Cardinality(stream.worker_datasets))
        /\ OpenIterators \subseteq ActiveRegion(stream)

\* as many children as allowed are open, one of them after another child was exhausted and
\* returned, and a further child waits outside the active region
C24_Witness ==
    /\ stream.pc = "next"
    /\ Cardinality(OpenIterators) = stream.max_simultaneous
    /\ stream.max_simultaneous = 2
    /\ Len(stream.reservoir) > stream.max_simultaneous
    /\ stream.num_opened > Cardinality(OpenIterators)

\* C29: iterating a Prefetcher over a dataloader of n batches yields those
\* n batches once each in dataloader order and then ends normally, with the
\* dataloader iterator reset so that the next iteration yields them again;
\* an InfinitePrefetcher goes round without ever stopping or failing.
C29_PrefetcherPasses ==
    prefetch.pc # "idle" =>
        /\ prefetch.raised \in {"none", "StopIteration"}
        /\ Len(prefetch.yielded) <= Len(prefetch.dataloader)
        /\ \A i \in DOMAIN prefetch.yielded : prefetch.yielded[i] = to_device(prefetch.dataloader[i])
        /\ prefetch.pc = "ended" =>
              /\ Len(prefetch.yielded) = Len(prefetch.dataloader)
              /\ prefetch.dataloader_iter = 0

\* C30: the global tags round-trip through GLOBAL_MODEL_TAGS: right after
\* set_global_tags(S), get_global_tags() is S; after add_global_tag calls
\* only, starting from an unset variable, get_global_tags() is the set of
\* the tags added.
C30_TagsRoundTrip ==
    (os_environ.pc = "called" /\ (os_environ.op = "set" \/ os_environ.only_adds)) =>
        get_global_tags = os_environ.given

=============================================================================
